---- MODULE Spec2Model ----
(***************************************************************************)
(* Model of the graph-algorithms engine of visual-graph-playground         *)
(* (src/src/utils/graphAlgorithms.ts) over the GraphData type of           *)
(* src/unnamed/part_000 (the "@/types/graph" module).                      *)
(*                                                                         *)
(* A JavaScript Map is an insertion-ordered mapping: Map<number, number[]> *)
(* is modelled as the pair (keys, adjacencyList) where keys is the         *)
(* sequence of keys in insertion order and adjacencyList is the function   *)
(* from the keys to their neighbour lists.                                 *)
(***************************************************************************)
EXTENDS Integers, Sequences, FiniteSets, TLC

(* ------------------------------ bounds -------------------------------- *)

\* node ids of the traversal graphs are 0..MaxNode
MaxNode == 2
\* total number of neighbour entries over all adjacency lists
MaxArcs == 3
\* length of the edge list of a flow network
MaxEdges == 2
\* number of nodes of the undirected graphs given by an edge set
UndirNodes == 4
\* number of lines of the adjacency text of a played graph, with at most
\* one neighbour each
MaxLines == 2
\* number of runAlgorithm calls suspended at the same time
MaxLoops == 2

(* --------------------------- sequence helpers -------------------------- *)

Range(s) == {s[i] : i \in 1..Len(s)}

RECURSIVE InsertSorted(_, _)
InsertSorted(x, s) ==
  IF s = <<>> THEN <<x>>
  ELSE IF x <= Head(s) THEN <<x>> \o s
  ELSE <<Head(s)>> \o InsertSorted(x, Tail(s))

\* Array.prototype.sort((a, b) => a - b)
RECURSIVE SortAsc(_)
SortAsc(s) == IF s = <<>> THEN <<>> ELSE InsertSorted(Head(s), SortAsc(Tail(s)))

(* ------------------------------ GraphData ------------------------------ *)

\* interface GraphEdge { from, to, capacity? }
GraphEdge(from, to, capacity) == [from |-> from, to |-> to, capacity |-> capacity]

\* interface GraphData { isDirected, adjacencyList, edges }; keys is the
\* insertion order of the adjacencyList Map
GraphData(isDirected, keys, adjacencyList, edges) ==
  [isDirected |-> isDirected, keys |-> keys,
   adjacencyList |-> adjacencyList, edges |-> edges]

\* graph.adjacencyList.has(node)
HasNode(graph, node) == node \in DOMAIN graph.adjacencyList

\* graph.adjacencyList.get(node) || []
Neighbors(graph, node) ==
  IF HasNode(graph, node) THEN graph.adjacencyList[node] ELSE <<>>

\* interface TraversalStep { node, visited }
TraversalStep(node, visited) == [node |-> node, visited |-> visited]

(* ---------------------------------- bfs -------------------------------- *)

\* BfsScan that leaves the loop after the first neighbour
BfsScanFirstOnly(neighbors, visited, queue) ==
  IF neighbors = <<>> \/ Head(neighbors) \in visited
  THEN [visited |-> visited, queue |-> queue]
  ELSE [visited |-> visited \cup {Head(neighbors)},
        queue |-> Append(queue, Head(neighbors))]

\* for (const neighbor of neighbors) if (!visited.has(neighbor)) { add; push }
RECURSIVE BfsScan(_, _, _)
BfsScan(neighbors, visited, queue) ==
  IF neighbors = <<>> THEN [visited |-> visited, queue |-> queue]
  ELSE LET neighbor == Head(neighbors) IN
       IF neighbor \notin visited
       THEN BfsScan(Tail(neighbors), visited \cup {neighbor}, Append(queue, neighbor))
       ELSE BfsScan(Tail(neighbors), visited, queue)

\* while (queue.length > 0) { shift; push step with a copy of visited; scan }
RECURSIVE BfsLoop(_, _, _, _)
BfsLoop(graph, queue, visited, steps) ==
  IF queue = <<>> THEN steps
  ELSE LET node == Head(queue)
           emitted == Append(steps, TraversalStep(node, visited))
           scan == BfsScan(Neighbors(graph, node), visited, Tail(queue))
       IN BfsLoop(graph, scan.queue, scan.visited, emitted)

bfs(graph, startNode) == BfsLoop(graph, <<startNode>>, {startNode}, <<>>)

(* ---------------------------------- dfs -------------------------------- *)

\* dfsHelper and its loop over the neighbours; st = [visited, steps]
RECURSIVE DfsHelper(_, _, _)
RECURSIVE DfsNeighbors(_, _, _)
DfsHelper(graph, node, st) ==
  LET visited == st.visited \cup {node}
      marked == [visited |-> visited,
                 steps |-> Append(st.steps, TraversalStep(node, visited))]
  IN DfsNeighbors(graph, Neighbors(graph, node), marked)

\* DfsNeighbors that leaves the loop after the first neighbour
DfsNeighborsFirstOnly(graph, neighbors, st) ==
  IF neighbors = <<>> \/ Head(neighbors) \in st.visited THEN st
  ELSE DfsHelper(graph, Head(neighbors), st)

DfsNeighbors(graph, neighbors, st) ==
  IF neighbors = <<>> THEN st
  ELSE LET neighbor == Head(neighbors)
           next == IF neighbor \notin st.visited
                   THEN DfsHelper(graph, neighbor, st) ELSE st
       IN DfsNeighbors(graph, Tail(neighbors), next)

dfs(graph, startNode) ==
  DfsHelper(graph, startNode, [visited |-> {}, steps |-> <<>>]).steps

(* ------------------------ findConnectedComponents ---------------------- *)

\* the neighbour loop of the component BFS
RECURSIVE CcScan(_, _, _)
CcScan(neighbors, visited, queue) ==
  IF neighbors = <<>> THEN [visited |-> visited, queue |-> queue]
  ELSE LET neighbor == Head(neighbors) IN
       IF neighbor \notin visited
       THEN CcScan(Tail(neighbors), visited \cup {neighbor}, Append(queue, neighbor))
       ELSE CcScan(Tail(neighbors), visited, queue)

\* while (queue.length > 0) { shift; component.push(current); scan }
RECURSIVE CcBfs(_, _, _, _)
CcBfs(graph, queue, visited, component) ==
  IF queue = <<>> THEN [visited |-> visited, component |-> component]
  ELSE LET current == Head(queue)
           scan == CcScan(Neighbors(graph, current), visited, Tail(queue))
       IN CcBfs(graph, scan.queue, scan.visited, Append(component, current))

\* Array.from(graph.adjacencyList.keys()): the keys in insertion order
NodesOf(graph) == graph.keys

\* CcLoop that keeps only the seeds in visited, not what the BFS marked
RECURSIVE CcLoopSeedsOnly(_, _, _, _)
CcLoopSeedsOnly(graph, nodes, visited, components) ==
  IF nodes = <<>> THEN components
  ELSE LET node == Head(nodes) IN
       IF node \notin visited
       THEN LET r == CcBfs(graph, <<node>>, visited \cup {node}, <<>>)
            IN CcLoopSeedsOnly(graph, Tail(nodes), visited \cup {node},
                               Append(components, SortAsc(r.component)))
       ELSE CcLoopSeedsOnly(graph, Tail(nodes), visited, components)

\* for (const node of nodes) if (!visited.has(node)) { BFS; push sorted }
RECURSIVE CcLoop(_, _, _, _)
CcLoop(graph, nodes, visited, components) ==
  IF nodes = <<>> THEN components
  ELSE LET node == Head(nodes) IN
       IF node \notin visited
       THEN LET r == CcBfs(graph, <<node>>, visited \cup {node}, <<>>)
            IN CcLoop(graph, Tail(nodes), r.visited,
                      Append(components, SortAsc(r.component)))
       ELSE CcLoop(graph, Tail(nodes), visited, components)

findConnectedComponents(graph) == CcLoop(graph, NodesOf(graph), {}, <<>>)

(* -------------------- findStronglyConnectedComponents ------------------ *)

\* dfs1 and its neighbour loop; st = [visited, stack]
RECURSIVE Dfs1(_, _, _)
RECURSIVE Dfs1Neighbors(_, _, _)
Dfs1(graph, node, st) ==
  LET entered == [visited |-> st.visited \cup {node}, stack |-> st.stack]
      after == Dfs1Neighbors(graph, Neighbors(graph, node), entered)
  IN [visited |-> after.visited, stack |-> Append(after.stack, node)]

Dfs1Neighbors(graph, neighbors, st) ==
  IF neighbors = <<>> THEN st
  ELSE LET neighbor == Head(neighbors)
           next == IF neighbor \notin st.visited
                   THEN Dfs1(graph, neighbor, st) ELSE st
       IN Dfs1Neighbors(graph, Tail(neighbors), next)

\* for (const node of nodes) if (!visited.has(node)) dfs1(node)
RECURSIVE Dfs1All(_, _, _)
Dfs1All(graph, nodes, st) ==
  IF nodes = <<>> THEN st
  ELSE LET node == Head(nodes)
           next == IF node \notin st.visited THEN Dfs1(graph, node, st) ELSE st
       IN Dfs1All(graph, Tail(nodes), next)

\* list = transposed.get(neighbor) || []; list.push(node); transposed.set(neighbor, list)
TransposeAdd(transposed, neighbor, node) ==
  IF neighbor \in DOMAIN transposed
  THEN [transposed EXCEPT ![neighbor] = Append(@, node)]
  ELSE [x \in DOMAIN transposed \cup {neighbor} |->
          IF x = neighbor THEN <<node>> ELSE transposed[x]]

RECURSIVE TransposeNeighbors(_, _, _)
TransposeNeighbors(transposed, node, neighbors) ==
  IF neighbors = <<>> THEN transposed
  ELSE TransposeNeighbors(TransposeAdd(transposed, Head(neighbors), node),
                          node, Tail(neighbors))

\* for (const [node, neighbors] of graph.adjacencyList.entries())
RECURSIVE TransposeEntries(_, _, _)
TransposeEntries(graph, nodes, transposed) ==
  IF nodes = <<>> THEN transposed
  ELSE TransposeEntries(graph, Tail(nodes),
         TransposeNeighbors(transposed, Head(nodes),
                            graph.adjacencyList[Head(nodes)]))

\* the adjacency mapping itself, no edge reversed
NotTransposed(graph) == graph.adjacencyList

Transposed(graph) ==
  TransposeEntries(graph, NodesOf(graph), [n \in Range(NodesOf(graph)) |-> <<>>])

\* dfs2 and its neighbour loop over the transpose; st = [visited, component]
RECURSIVE Dfs2(_, _, _)
RECURSIVE Dfs2Neighbors(_, _, _)
Dfs2(transposed, node, st) ==
  LET entered == [visited |-> st.visited \cup {node},
                  component |-> Append(st.component, node)]
      neighbors == IF node \in DOMAIN transposed THEN transposed[node] ELSE <<>>
  IN Dfs2Neighbors(transposed, neighbors, entered)

Dfs2Neighbors(transposed, neighbors, st) ==
  IF neighbors = <<>> THEN st
  ELSE LET neighbor == Head(neighbors)
           next == IF neighbor \notin st.visited
                   THEN Dfs2(transposed, neighbor, st) ELSE st
       IN Dfs2Neighbors(transposed, Tail(neighbors), next)

\* while (stack.length > 0) { pop; if unvisited: dfs2, push sorted component }
RECURSIVE SccLoop(_, _, _, _)
SccLoop(transposed, stack, visited, sccs) ==
  IF stack = <<>> THEN sccs
  ELSE LET node == stack[Len(stack)]
           rest == SubSeq(stack, 1, Len(stack) - 1)
       IN IF node \notin visited
          THEN LET r == Dfs2(transposed, node,
                             [visited |-> visited, component |-> <<>>])
               IN SccLoop(transposed, rest, r.visited,
                          Append(sccs, SortAsc(r.component)))
          ELSE SccLoop(transposed, rest, visited, sccs)

findStronglyConnectedComponents(graph) ==
  IF ~graph.isDirected THEN <<>>
  ELSE LET first == Dfs1All(graph, NodesOf(graph), [visited |-> {}, stack |-> <<>>])
       IN SccLoop(Transposed(graph), first.stack, {}, <<>>)

(* -------------------------------- maxFlow ------------------------------ *)

\* let pathFlow = Infinity: a value above every finite number of the model;
\* 0 - Infinity is -Infinity
Infinity == 1000000

\* the number NaN of the engine's arithmetic: a value that no sum or
\* difference of the other numbers of the model gives
NumberNaN == 0 - 3 * Infinity

\* Math.min(a, b): NaN when either is NaN (each argument is evaluated once)
Min(a, b) ==
  LET min(x, y) == IF x = NumberNaN \/ y = NumberNaN THEN NumberNaN
                   ELSE IF x <= y THEN x ELSE y
  IN CHOOSE m \in {min(x, y) : x \in {a}, y \in {b}} : TRUE

\* a + b: NaN with NaN and for Infinity + -Infinity, an infinity stays
Plus(a, b) ==
  LET sum(x, y) ==
        IF x = NumberNaN \/ y = NumberNaN THEN NumberNaN
        ELSE IF x = Infinity
        THEN (IF y = 0 - Infinity THEN NumberNaN ELSE Infinity)
        ELSE IF x = 0 - Infinity
        THEN (IF y = Infinity THEN NumberNaN ELSE 0 - Infinity)
        ELSE IF y = Infinity \/ y = 0 - Infinity THEN y
        ELSE x + y
  IN CHOOSE r \in {sum(x, y) : x \in {a}, y \in {b}} : TRUE

\* a - b = a + (-b): NaN with NaN and for Infinity - Infinity
Minus(a, b) ==
  LET negated(y) == IF y = NumberNaN THEN NumberNaN ELSE 0 - y
  IN CHOOSE r \in {Plus(a, negated(y)) : y \in {b}} : TRUE

\* cap > 0, false of NaN
Positive(cap) == cap # NumberNaN /\ cap > 0

\* strings are sequences of one-character strings
DigitChars == <<"0", "1", "2", "3", "4", "5", "6", "7", "8", "9">>

RECURSIVE NatToString(_)
NatToString(n) ==
  IF n < 10 THEN <<DigitChars[n + 1]>>
  ELSE NatToString(n \div 10) \o <<DigitChars[(n % 10) + 1]>>

InfinityText == <<"I", "n", "f", "i", "n", "i", "t", "y">>

\* the text of an integer or of an infinity in a template literal
NumberToString(n) ==
  IF n = Infinity THEN InfinityText
  ELSE IF n = 0 - Infinity THEN <<"-">> \o InfinityText
  ELSE IF n < 0 THEN <<"-">> \o NatToString(0 - n)
  ELSE NatToString(n)

\* `${edge.from}-${edge.to}`
EdgeKey(from, to) == NumberToString(from) \o <<"-">> \o NumberToString(to)

\* key.split('-')
RECURSIVE SplitDash(_, _)
SplitDash(s, current) ==
  IF s = <<>> THEN <<current>>
  ELSE IF Head(s) = "-" THEN <<current>> \o SplitDash(Tail(s), <<>>)
  ELSE SplitDash(Tail(s), Append(current, Head(s)))

\* Number(piece) for a piece of decimal digits; Number("") is 0
RECURSIVE DigitsValue(_, _)
DigitsValue(s, acc) ==
  IF s = <<>> THEN acc
  ELSE DigitsValue(Tail(s),
         10 * acc + (CHOOSE d \in 0..9 : DigitChars[d + 1] = Head(s)))

\* const [from, to] = key.split('-').map(Number)
KeyEndpoints(key) ==
  LET parts == SplitDash(key, <<>>)
  IN [from |-> DigitsValue(parts[1], 0), to |-> DigitsValue(parts[2], 0)]

\* a Map as the sequence of its entries [key, value] in insertion order
MapHas(m, k) == \E i \in 1..Len(m) : m[i].key = k

MapGet(m, k) == m[CHOOSE i \in 1..Len(m) : m[i].key = k].value

\* Map.prototype.set: an existing key keeps its position
MapSet(m, k, v) ==
  IF MapHas(m, k)
  THEN LET i == CHOOSE j \in 1..Len(m) : m[j].key = k
       IN SubSeq(m, 1, i - 1) \o <<[key |-> k, value |-> v]>>
            \o SubSeq(m, i + 1, Len(m))
  ELSE Append(m, [key |-> k, value |-> v])

\* edge.capacity || 1 (an absent capacity is modelled as 0)
CapacityOf(edge) ==
  IF edge.capacity = 0 \/ edge.capacity = NumberNaN THEN 1 ELSE edge.capacity

\* for (const edge of graph.edges) capacity.set(key, edge.capacity || 1)
RECURSIVE CapacityMap(_, _)
CapacityMap(edges, capacity) ==
  IF edges = <<>> THEN capacity
  ELSE LET edge == Head(edges)
       IN CapacityMap(Tail(edges),
                      MapSet(capacity, EdgeKey(edge.from, edge.to), CapacityOf(edge)))

\* for (const [key, cap] of capacity.entries()) { ... }: residualGraph.get(x)!
\* is undefined for x not a key of the adjacency mapping, and the call on it
\* throws a TypeError
RECURSIVE ResidualLoop(_, _)
ResidualLoop(entries, rg) ==
  IF entries = <<>> THEN [threw |-> FALSE, residualGraph |-> rg]
  ELSE LET e == KeyEndpoints(Head(entries).key)
           cap == Head(entries).value
       IN IF e.from \notin DOMAIN rg THEN [threw |-> TRUE, residualGraph |-> rg]
          ELSE LET rg1 == [rg EXCEPT ![e.from] = MapSet(@, e.to, cap)]
               IN IF e.to \notin DOMAIN rg1 THEN [threw |-> TRUE, residualGraph |-> rg1]
                  ELSE ResidualLoop(Tail(entries),
                         IF ~MapHas(rg1[e.to], e.from)
                         THEN [rg1 EXCEPT ![e.to] = MapSet(@, e.from, 0)]
                         ELSE rg1)

BuildResidual(graph) ==
  ResidualLoop(CapacityMap(graph.edges, <<>>),
               [n \in Range(NodesOf(graph)) |-> <<>>])

\* while (current !== source) { path.unshift(current); current = parent.get(current) }
RECURSIVE PathTo(_, _, _, _)
PathTo(parent, source, current, path) ==
  IF current = source THEN <<source>> \o path
  ELSE PathTo(parent, source, parent[current], <<current>> \o path)

\* for (const [v, cap] of neighbors.entries()) if (!visited.has(v) && cap > 0)
RECURSIVE BfsPathScan(_, _, _)
BfsPathScan(entries, u, st) ==
  IF entries = <<>> THEN st
  ELSE LET v == Head(entries).key
           cap == Head(entries).value
       IN IF v \notin st.visited /\ Positive(cap)
          THEN BfsPathScan(Tail(entries), u,
                 [visited |-> st.visited \cup {v},
                  parent |-> [x \in DOMAIN st.parent \cup {v} |->
                                IF x = v THEN u ELSE st.parent[x]],
                  queue |-> Append(st.queue, v)])
          ELSE BfsPathScan(Tail(entries), u, st)

RECURSIVE BfsPathLoop(_, _, _, _)
BfsPathLoop(rg, source, sink, st) ==
  IF st.queue = <<>> THEN [kind |-> "null", path |-> <<>>]
  ELSE LET u == Head(st.queue) IN
       IF u = sink THEN [kind |-> "path", path |-> PathTo(st.parent, source, sink, <<>>)]
       ELSE IF u \notin DOMAIN rg THEN [kind |-> "threw", path |-> <<>>]
       ELSE CHOOSE found \in
              {BfsPathLoop(rg, source, sink, scanned) :
                 scanned \in {BfsPathScan(rg[u], u, [st EXCEPT !.queue = Tail(@)])}} :
              TRUE

bfsPath(rg, source, sink) ==
  BfsPathLoop(rg, source, sink,
    [visited |-> {source}, parent |-> [x \in {} |-> 0], queue |-> <<source>>])

\* pathFlow = Math.min(pathFlow, residualGraph.get(u)!.get(v)!) along the path
RECURSIVE PathFlow(_, _, _)
PathFlow(rg, path, pathFlow) ==
  IF Len(path) < 2 THEN pathFlow
  ELSE PathFlow(rg, Tail(path), Min(pathFlow, MapGet(rg[path[1]], path[2])))

\* residual(u, v) -= pathFlow; residual(v, u) += pathFlow along the path
RECURSIVE Augment(_, _, _)
Augment(rg, path, pathFlow) ==
  IF Len(path) < 2 THEN rg
  ELSE LET u == path[1]
           v == path[2]
           rg1 == [rg EXCEPT ![u] = MapSet(@, v, Minus(MapGet(@, v), pathFlow))]
           rg2 == [rg1 EXCEPT ![v] = MapSet(@, u, Plus(MapGet(@, u), pathFlow))]
       IN CHOOSE updated \in
            {Augment(rg3, rest, pathFlow) : rg3 \in {rg2}, rest \in {Tail(path)}} :
            TRUE

(* ------------------------ findArticulationPoints ----------------------- *)

\* Map.prototype.set on a Map<number, _> whose order of keys is never read
Put(f, k, v) == [x \in DOMAIN f \cup {k} |-> IF x = k THEN v ELSE f[x]]

\* Set.prototype.add on a Set whose elements are read in insertion order
SetAdd(s, x) == IF x \in Range(s) THEN s ELSE Append(s, x)

\* the working state of findArticulationPoints before the first dfsAP; a
\* parent is <<>> for null and <<p>> for the node p
ApStart ==
  [visited |-> {}, disc |-> <<>>, low |-> <<>>, parent |-> <<>>,
   articulationPoints |-> <<>>, bridges |-> <<>>, time |-> 0]

\* dfsAP whose parent test is never true: every visited neighbour is taken
\* as a back-edge
RECURSIVE DfsAPNoParentSkip(_, _, _)
RECURSIVE ApNeighborsNoParentSkip(_, _, _, _, _)
DfsAPNoParentSkip(graph, u, st) ==
  LET entered == [st EXCEPT !.visited = @ \cup {u},
                            !.disc = Put(@, u, st.time),
                            !.low = Put(@, u, st.time),
                            !.time = @ + 1]
  IN ApNeighborsNoParentSkip(graph, u, Neighbors(graph, u), 0, entered)

ApNeighborsNoParentSkip(graph, u, neighbors, children, st) ==
  IF neighbors = <<>> THEN st
  ELSE LET v == Head(neighbors) IN
       IF v \notin st.visited
       THEN LET st1 == DfsAPNoParentSkip(graph, v, [st EXCEPT !.parent = Put(@, v, <<u>>)])
                st2 == [st1 EXCEPT !.low = Put(@, u, Min(st1.low[u], st1.low[v]))]
                st3 == IF st2.parent[u] = <<>> /\ children + 1 > 1
                       THEN [st2 EXCEPT !.articulationPoints = SetAdd(@, u)] ELSE st2
                st4 == IF st3.parent[u] # <<>> /\ st3.low[v] >= st3.disc[u]
                       THEN [st3 EXCEPT !.articulationPoints = SetAdd(@, u)] ELSE st3
                st5 == IF st4.low[v] > st4.disc[u]
                       THEN [st4 EXCEPT !.bridges = Append(@, <<u, v>>)] ELSE st4
            IN ApNeighborsNoParentSkip(graph, u, Tail(neighbors), children + 1, st5)
       ELSE ApNeighborsNoParentSkip(graph, u, Tail(neighbors), children,
              [st EXCEPT !.low = Put(@, u, Min(st.low[u], st.disc[v]))])

\* dfsAP(u) and its loop over the neighbours of u; children is the local
\* counter of the call
RECURSIVE DfsAP(_, _, _)
RECURSIVE ApNeighbors(_, _, _, _, _)
DfsAP(graph, u, st) ==
  LET entered == [st EXCEPT !.visited = @ \cup {u},
                            !.disc = Put(@, u, st.time),
                            !.low = Put(@, u, st.time),
                            !.time = @ + 1]
  IN ApNeighbors(graph, u, Neighbors(graph, u), 0, entered)

ApNeighbors(graph, u, neighbors, children, st) ==
  IF neighbors = <<>> THEN st
  ELSE LET v == Head(neighbors) IN
       IF v \notin st.visited
       THEN LET st1 == DfsAP(graph, v, [st EXCEPT !.parent = Put(@, v, <<u>>)])
                st2 == [st1 EXCEPT !.low = Put(@, u, Min(st1.low[u], st1.low[v]))]
                st3 == IF st2.parent[u] = <<>> /\ children + 1 > 1
                       THEN [st2 EXCEPT !.articulationPoints = SetAdd(@, u)] ELSE st2
                st4 == IF st3.parent[u] # <<>> /\ st3.low[v] >= st3.disc[u]
                       THEN [st3 EXCEPT !.articulationPoints = SetAdd(@, u)] ELSE st3
                st5 == IF st4.low[v] > st4.disc[u]
                       THEN [st4 EXCEPT !.bridges = Append(@, <<u, v>>)] ELSE st4
            IN ApNeighbors(graph, u, Tail(neighbors), children + 1, st5)
       ELSE IF st.parent[u] # <<v>>
       THEN ApNeighbors(graph, u, Tail(neighbors), children,
              [st EXCEPT !.low = Put(@, u, Min(st.low[u], st.disc[v]))])
       ELSE ApNeighbors(graph, u, Tail(neighbors), children, st)

\* ApLoop that runs dfsAP from the first node only
ApLoopFirstRootOnly(graph, nodes, st) ==
  IF nodes = <<>> THEN st
  ELSE DfsAP(graph, Head(nodes), [st EXCEPT !.parent = Put(@, Head(nodes), <<>>)])

\* for (const node of nodes) if (!visited.has(node)) { parent.set(node, null); dfsAP(node) }
RECURSIVE ApLoop(_, _, _)
ApLoop(graph, nodes, st) ==
  IF nodes = <<>> THEN st
  ELSE LET node == Head(nodes)
           next == IF node \notin st.visited
                   THEN DfsAP(graph, node, [st EXCEPT !.parent = Put(@, node, <<>>)])
                   ELSE st
       IN ApLoop(graph, Tail(nodes), next)

\* the working state when findArticulationPoints returns
ApRun(graph) == ApLoop(graph, NodesOf(graph), ApStart)

\* return { points: Array.from(articulationPoints), bridges }
findArticulationPoints(graph) ==
  LET st == ApRun(graph)
  IN [points |-> st.articulationPoints, bridges |-> st.bridges]

(* ----------------------- findBiconnectedComponents --------------------- *)

\* the working state of findBiconnectedComponents before the first dfsBCC;
\* leftOnStack records the length of the edge stack at the end of the loop
\* body of each root
BccStart ==
  [visited |-> {}, disc |-> <<>>, low |-> <<>>, parent |-> <<>>,
   stack |-> <<>>, biconnectedComponents |-> <<>>, time |-> 0,
   leftOnStack |-> <<>>]

\* do { edge = stack.pop(); add its ends } while (edge && edge is not (u, v))
RECURSIVE BccPop(_, _, _, _)
BccPop(stack, u, v, component) ==
  IF stack = <<>> THEN [stack |-> stack, component |-> component]
  ELSE LET edge == stack[Len(stack)]
           rest == SubSeq(stack, 1, Len(stack) - 1)
           added == SetAdd(SetAdd(component, edge[1]), edge[2])
       IN IF edge[1] # u \/ edge[2] # v
          THEN BccPop(rest, u, v, added)
          ELSE [stack |-> rest, component |-> added]

\* while (stack.length > 0) { edge = stack.pop(); add its ends }
RECURSIVE BccDrain(_, _)
BccDrain(stack, component) ==
  IF stack = <<>> THEN [stack |-> stack, component |-> component]
  ELSE LET edge == stack[Len(stack)]
       IN BccDrain(SubSeq(stack, 1, Len(stack) - 1),
                   SetAdd(SetAdd(component, edge[1]), edge[2]))

\* dfsBCC(u) and its loop over the neighbours of u
RECURSIVE DfsBCC(_, _, _)
RECURSIVE BccNeighbors(_, _, _, _, _)
DfsBCC(graph, u, st) ==
  LET entered == [st EXCEPT !.visited = @ \cup {u},
                            !.disc = Put(@, u, st.time),
                            !.low = Put(@, u, st.time),
                            !.time = @ + 1]
  IN BccNeighbors(graph, u, Neighbors(graph, u), 0, entered)

BccNeighbors(graph, u, neighbors, children, st) ==
  IF neighbors = <<>> THEN st
  ELSE LET v == Head(neighbors) IN
       IF v \notin st.visited
       THEN LET st1 == DfsBCC(graph, v,
                         [st EXCEPT !.parent = Put(@, v, <<u>>),
                                    !.stack = Append(@, <<u, v>>)])
                st2 == [st1 EXCEPT !.low = Put(@, u, Min(st1.low[u], st1.low[v]))]
                st3 == IF \/ st2.parent[u] = <<>> /\ children + 1 > 1
                          \/ st2.parent[u] # <<>> /\ st2.low[v] >= st2.disc[u]
                       THEN LET popped == BccPop(st2.stack, u, v, <<>>)
                            IN [st2 EXCEPT !.stack = popped.stack,
                                           !.biconnectedComponents =
                                              Append(@, SortAsc(popped.component))]
                       ELSE st2
            IN BccNeighbors(graph, u, Tail(neighbors), children + 1, st3)
       ELSE IF st.parent[u] # <<v>> /\ st.disc[v] < st.disc[u]
       THEN BccNeighbors(graph, u, Tail(neighbors), children,
              [st EXCEPT !.stack = Append(@, <<u, v>>),
                         !.low = Put(@, u, Min(st.low[u], st.disc[v]))])
       ELSE BccNeighbors(graph, u, Tail(neighbors), children, st)

\* for (const node of nodes) if (!visited.has(node)) { dfsBCC(node); drain }
RECURSIVE BccLoop(_, _, _)
BccLoop(graph, nodes, st) ==
  IF nodes = <<>> THEN st
  ELSE LET node == Head(nodes) IN
       IF node \notin st.visited
       THEN LET st1 == DfsBCC(graph, node, [st EXCEPT !.parent = Put(@, node, <<>>)])
                drained == BccDrain(st1.stack, <<>>)
                st2 == IF Len(st1.stack) > 0
                       THEN [st1 EXCEPT !.stack = drained.stack,
                                        !.biconnectedComponents =
                                           Append(@, SortAsc(drained.component))]
                       ELSE st1
            IN BccLoop(graph, Tail(nodes),
                       [st2 EXCEPT !.leftOnStack = Append(@, Len(st2.stack))])
       ELSE BccLoop(graph, Tail(nodes), st)

\* the working state when findBiconnectedComponents returns
BccRun(graph) == BccLoop(graph, NodesOf(graph), BccStart)

findBiconnectedComponents(graph) == BccRun(graph).biconnectedComponents

(* --------------------------- texts and numbers ------------------------- *)

\* the white space that trim, /\s+/ and parseInt take; a character without
\* a TLA+ escape is named by its JavaScript escape
WhiteSpace ==
  {" ", "\t", "\n", "\r", "\f", "\\v", "\\u00A0", "\\u1680", "\\u2000",
   "\\u2001", "\\u2002", "\\u2003", "\\u2004", "\\u2005", "\\u2006",
   "\\u2007", "\\u2008", "\\u2009", "\\u200A", "\\u2028", "\\u2029",
   "\\u202F", "\\u205F", "\\u3000", "\\uFEFF"}

RECURSIVE TrimStart(_)
TrimStart(s) ==
  IF s # <<>> /\ Head(s) \in WhiteSpace THEN TrimStart(Tail(s)) ELSE s

RECURSIVE TrimEnd(_)
TrimEnd(s) ==
  IF s # <<>> /\ s[Len(s)] \in WhiteSpace
  THEN TrimEnd(SubSeq(s, 1, Len(s) - 1))
  ELSE s

\* String.prototype.trim
Trim(s) == TrimEnd(TrimStart(s))

\* s.split(sep) for a separator of one character
RECURSIVE Split(_, _, _)
Split(s, sep, current) ==
  IF s = <<>> THEN <<current>>
  ELSE IF Head(s) = sep THEN <<current>> \o Split(Tail(s), sep, <<>>)
  ELSE Split(Tail(s), sep, Append(current, Head(s)))

\* s.split(/\s+/): the pieces between the runs of white space
RECURSIVE SplitSpaces(_, _)
SplitSpaces(s, current) ==
  IF s = <<>> THEN <<current>>
  ELSE IF Head(s) \in WhiteSpace
       THEN <<current>> \o SplitSpaces(TrimStart(s), <<>>)
       ELSE SplitSpaces(Tail(s), Append(current, Head(s)))

\* a JavaScript number: NaN, or value / 10^scale; scale is 0 for an integer,
\* and value is no multiple of 10 otherwise
NaN == [nan |-> TRUE, value |-> 0, scale |-> 0]

Num(v) == [nan |-> FALSE, value |-> v, scale |-> 0]

IsDigit(c) == \E d \in 1..10 : DigitChars[d] = c

RECURSIVE LeadingDigits(_)
LeadingDigits(s) ==
  IF s # <<>> /\ IsDigit(Head(s))
  THEN <<Head(s)>> \o LeadingDigits(Tail(s))
  ELSE <<>>

RadixChars ==
  <<"0", "1", "2", "3", "4", "5", "6", "7", "8", "9",
    "a", "b", "c", "d", "e", "f">>

UpperChars == <<"A", "B", "C", "D", "E", "F">>

\* the value of c as a digit, 16 for a character that is no digit up to f
DigitOf(c) ==
  IF \E d \in 1..16 : RadixChars[d] = c
  THEN (CHOOSE d \in 1..16 : RadixChars[d] = c) - 1
  ELSE IF \E d \in 1..6 : UpperChars[d] = c
  THEN (CHOOSE d \in 1..6 : UpperChars[d] = c) + 9
  ELSE 16

RECURSIVE LeadingRadixDigits(_, _)
LeadingRadixDigits(s, radix) ==
  IF s # <<>> /\ DigitOf(Head(s)) < radix
  THEN <<Head(s)>> \o LeadingRadixDigits(Tail(s), radix)
  ELSE <<>>

RECURSIVE RadixValue(_, _, _)
RadixValue(s, radix, acc) ==
  IF s = <<>> THEN acc
  ELSE RadixValue(Tail(s), radix, radix * acc + DigitOf(Head(s)))

\* the text begins with 0 and one of the letters: 0x, 0X, 0b, ...
HasRadixPrefix(s, letters) == Len(s) >= 2 /\ s[1] = "0" /\ s[2] \in letters

\* parseInt(text): leading white space, a sign, then the digits up to the
\* first other character, hexadecimal ones after 0x or 0X and decimal ones
\* otherwise; NaN without a digit
ParseInt(text) ==
  LET s == TrimStart(text)
      signed == s # <<>> /\ Head(s) \in {"-", "+"}
      body == IF signed THEN Tail(s) ELSE s
      hex == HasRadixPrefix(body, {"x", "X"})
      digits == IF hex THEN LeadingRadixDigits(SubSeq(body, 3, Len(body)), 16)
                ELSE LeadingDigits(body)
      value == RadixValue(digits, IF hex THEN 16 ELSE 10, 0)
  IN IF digits = <<>> THEN NaN
     ELSE IF signed /\ Head(s) = "-" THEN Num(0 - value)
     ELSE Num(value)

\* m * 10^e for e >= 0; a product of 10^6 or more is beyond the integers of
\* the model and is read as Infinity
RECURSIVE TimesPowerOfTen(_, _)
TimesPowerOfTen(m, e) ==
  IF e = 0 THEN m
  ELSE IF m >= Infinity \div 10 THEN Infinity
  ELSE TimesPowerOfTen(10 * m, e - 1)

\* the number m * 10^e, m > 0 or m = 0, with its sign
RECURSIVE Scaled(_, _, _)
Scaled(m, e, negative) ==
  IF m = 0 THEN Num(0)
  ELSE IF e < 0 /\ m % 10 = 0 THEN Scaled(m \div 10, e + 1, negative)
  ELSE IF e >= 0
  THEN Num(IF negative THEN 0 - TimesPowerOfTen(m, e) ELSE TimesPowerOfTen(m, e))
  ELSE [nan |-> FALSE, value |-> IF negative THEN 0 - m ELSE m, scale |-> 0 - e]

\* a StrUnsignedDecimalLiteral other than Infinity: digits, a fraction, an
\* exponent
DecimalLiteral(body, negative) ==
  LET int == LeadingDigits(body)
      afterInt == SubSeq(body, Len(int) + 1, Len(body))
      dotted == afterInt # <<>> /\ Head(afterInt) = "."
      frac == IF dotted THEN LeadingDigits(Tail(afterInt)) ELSE <<>>
      afterFrac == IF dotted
                   THEN SubSeq(afterInt, Len(frac) + 2, Len(afterInt))
                   ELSE afterInt
      hasExp == afterFrac # <<>> /\ Head(afterFrac) \in {"e", "E"}
      expText == IF hasExp THEN Tail(afterFrac) ELSE <<>>
      expSigned == expText # <<>> /\ Head(expText) \in {"-", "+"}
      expDigits == IF expSigned THEN Tail(expText) ELSE expText
      exponent == IF expSigned /\ Head(expText) = "-"
                  THEN 0 - RadixValue(expDigits, 10, 0)
                  ELSE RadixValue(expDigits, 10, 0)
  IN IF int = <<>> /\ frac = <<>> THEN NaN
     ELSE IF hasExp /\ (expDigits = <<>> \/ LeadingDigits(expDigits) # expDigits)
     THEN NaN
     ELSE IF ~hasExp /\ afterFrac # <<>> THEN NaN
     ELSE Scaled(RadixValue(int \o frac, 10, 0), exponent - Len(frac), negative)

\* 0x.., 0b.., 0o..: the digits of the radix and nothing else
NonDecimalLiteral(digits, radix) ==
  IF digits = <<>> \/ LeadingRadixDigits(digits, radix) # digits THEN NaN
  ELSE Num(RadixValue(digits, radix, 0))

\* Number(text): 0 for a blank text, a literal of radix 16, 2 or 8 without
\* a sign, a signed Infinity, a signed decimal literal, NaN otherwise
ToNumber(text) ==
  LET s == Trim(text)
      signed == s # <<>> /\ Head(s) \in {"-", "+"}
      negative == signed /\ Head(s) = "-"
      body == IF signed THEN Tail(s) ELSE s
  IN IF s = <<>> THEN Num(0)
     ELSE IF HasRadixPrefix(s, {"x", "X"})
     THEN NonDecimalLiteral(SubSeq(s, 3, Len(s)), 16)
     ELSE IF HasRadixPrefix(s, {"b", "B"})
     THEN NonDecimalLiteral(SubSeq(s, 3, Len(s)), 2)
     ELSE IF HasRadixPrefix(s, {"o", "O"})
     THEN NonDecimalLiteral(SubSeq(s, 3, Len(s)), 8)
     ELSE IF body = InfinityText
     THEN Num(IF negative THEN 0 - Infinity ELSE Infinity)
     ELSE DecimalLiteral(body, negative)

RECURSIVE Zeros(_)
Zeros(k) == IF k <= 0 THEN <<>> ELSE <<"0">> \o Zeros(k - 1)

\* the text of m / 10^k, m > 0 no multiple of 10 and k > 0: the digits with
\* the point, and the exponent form below 10^-6
FractionText(m, k) ==
  LET d == NatToString(m)
      n == Len(d) - k
  IN IF n > 0 THEN SubSeq(d, 1, n) \o <<".">> \o SubSeq(d, n + 1, Len(d))
     ELSE IF n > -6 THEN <<"0", ".">> \o Zeros(0 - n) \o d
     ELSE <<d[1]>> \o (IF Len(d) > 1 THEN <<".">> \o Tail(d) ELSE <<>>)
          \o <<"e", "-">> \o NatToString(1 - n)

\* the text of a number in a template literal
NumberText(num) ==
  IF num.scale = 0 THEN NumberToString(num.value)
  ELSE IF num.value < 0 THEN <<"-">> \o FractionText(0 - num.value, num.scale)
  ELSE FractionText(num.value, num.scale)

(* --------------------------- parseAdjacencyList ------------------------ *)

\* if (!isNaN(from) && !isNaN(to) && !isNaN(cap))
\*   capacityMap.set(`${from}-${to}`, cap)
SetCapacity(capacityMap, from, to, cap) ==
  IF from.nan \/ to.nan \/ cap.nan THEN capacityMap
  ELSE MapSet(capacityMap, NumberText(from) \o <<"-">> \o NumberText(to), cap)

\* for (const line of capLines) { const [edge, cap] = line.trim().split(":");
\* if (edge && cap) { const [from, to] = edge.trim().split(/\s+/).map(Number); ... } }
RECURSIVE CapLines(_, _)
CapLines(capLines, capacityMap) ==
  IF capLines = <<>> THEN capacityMap
  ELSE LET parts == Split(Trim(Head(capLines)), ":", <<>>)
       IN IF parts[1] = <<>> \/ Len(parts) < 2 \/ parts[2] = <<>>
          THEN CapLines(Tail(capLines), capacityMap)
          ELSE LET nums == SplitSpaces(Trim(parts[1]), <<>>)
               IN CapLines(Tail(capLines),
                    SetCapacity(capacityMap, ToNumber(nums[1]),
                                IF Len(nums) >= 2 THEN ToNumber(nums[2]) ELSE NaN,
                                ToNumber(parts[2])))

\* the capacityMap of parseAdjacencyList
ParseCapacities(edgeCapacities) ==
  IF Trim(edgeCapacities) = <<>> THEN <<>>
  ELSE CapLines(Split(Trim(edgeCapacities), "\n", <<>>), <<>>)

\* capacityMap.get(`${node}-${neighbor}`) || 1: an integer, or the number
\* itself when it is no integer
CapacityFor(capacityMap, node, neighbor) ==
  IF ~MapHas(capacityMap, EdgeKey(node, neighbor)) THEN 1
  ELSE LET cap == MapGet(capacityMap, EdgeKey(node, neighbor))
       IN IF cap.value = 0 THEN 1
          ELSE IF cap.scale = 0 THEN cap.value
          ELSE cap

\* for (const neighbor of neighbors) { edges.push(...); if (!isDirected) ... };
\* st = [adjacencyList, edges], adjacencyList a Map of entries [key, value].
\* A neighbour that was no key gets the list [node]; one that is a key and
\* does not list node gets node appended; each with the reverse edge
RECURSIVE NeighborLoop(_, _, _, _, _)
NeighborLoop(node, neighbors, isDirected, capacityMap, st) ==
  IF neighbors = <<>> THEN st
  ELSE LET neighbor == Head(neighbors)
           capacity == CapacityFor(capacityMap, node, neighbor)
           edges1 == Append(st.edges, GraphEdge(node, neighbor, capacity))
           edges2 == Append(edges1, GraphEdge(neighbor, node, capacity))
       IN IF isDirected
          THEN NeighborLoop(node, Tail(neighbors), isDirected, capacityMap,
                            [st EXCEPT !.edges = edges1])
          ELSE IF ~MapHas(st.adjacencyList, neighbor)
          THEN NeighborLoop(node, Tail(neighbors), isDirected, capacityMap,
                 [adjacencyList |-> MapSet(st.adjacencyList, neighbor, <<node>>),
                  edges |-> edges2])
          ELSE IF node \notin Range(MapGet(st.adjacencyList, neighbor))
          THEN NeighborLoop(node, Tail(neighbors), isDirected, capacityMap,
                 [adjacencyList |->
                    MapSet(st.adjacencyList, neighbor,
                           Append(MapGet(st.adjacencyList, neighbor), node)),
                  edges |-> edges2])
          ELSE NeighborLoop(node, Tail(neighbors), isDirected, capacityMap,
                            [st EXCEPT !.edges = edges1])

\* adjacencyList.set(node, neighbors) and the loop that creates the edges
AddLine(node, neighbors, isDirected, capacityMap, st) ==
  NeighborLoop(node, neighbors, isDirected, capacityMap,
               [st EXCEPT !.adjacencyList = MapSet(@, node, neighbors)])

\* parts[1].trim().split(/\s+/).map(n => parseInt(n)), [] for a blank text
ParseNeighbors(text) ==
  IF Trim(text) = <<>> THEN <<>>
  ELSE LET tokens == SplitSpaces(Trim(text), <<>>)
       IN [i \in 1..Len(tokens) |-> ParseInt(tokens[i])]

\* for (const line of lines) { ... }; toast is "none" while no line failed
RECURSIVE LineLoop(_, _, _, _)
LineLoop(lines, isDirected, capacityMap, st) ==
  IF lines = <<>> THEN [toast |-> "none", st |-> st]
  ELSE IF Trim(Head(lines)) = <<>>
       THEN LineLoop(Tail(lines), isDirected, capacityMap, st)
  ELSE LET parts == Split(Trim(Head(lines)), ":", <<>>) IN
       IF Len(parts) # 2 THEN [toast |-> "Invalid format", st |-> st]
       ELSE LET node == ParseInt(Trim(parts[1]))
                parsed == ParseNeighbors(parts[2])
            IN IF node.nan THEN [toast |-> "Invalid node number", st |-> st]
               ELSE IF \E i \in 1..Len(parsed) : parsed[i].nan
               THEN [toast |-> "Invalid neighbor", st |-> st]
               ELSE LET neighbors == [i \in 1..Len(parsed) |-> parsed[i].value]
                    IN LineLoop(Tail(lines), isDirected, capacityMap,
                         AddLine(node.value, neighbors, isDirected,
                                 capacityMap, st))

\* allNodes, a Set in insertion order: each key followed by its neighbours
RECURSIVE AddAll(_, _)
AddAll(allNodes, nodes) ==
  IF nodes = <<>> THEN allNodes
  ELSE IF Head(nodes) \in Range(allNodes) THEN AddAll(allNodes, Tail(nodes))
  ELSE AddAll(Append(allNodes, Head(nodes)), Tail(nodes))

RECURSIVE AllNodes(_, _)
AllNodes(entries, allNodes) ==
  IF entries = <<>> THEN allNodes
  ELSE IF Head(entries).key \in Range(allNodes)
  THEN AllNodes(Tail(entries), AddAll(allNodes, Head(entries).value))
  ELSE AllNodes(Tail(entries),
                AddAll(Append(allNodes, Head(entries).key), Head(entries).value))

\* for (const node of allNodes) if (!adjacencyList.has(node)) adjacencyList.set(node, [])
RECURSIVE SetMissing(_, _)
SetMissing(adjacencyList, allNodes) ==
  IF allNodes = <<>> THEN adjacencyList
  ELSE IF MapHas(adjacencyList, Head(allNodes))
  THEN SetMissing(adjacencyList, Tail(allNodes))
  ELSE SetMissing(MapSet(adjacencyList, Head(allNodes), <<>>), Tail(allNodes))

\* the adjacency list returned as it is after the loop over the lines
KeysAsParsed(adjacencyList) == adjacencyList

\* Ensure all nodes exist in adjacency list
EnsureAllNodes(adjacencyList) ==
  SetMissing(adjacencyList, AllNodes(adjacencyList, <<>>))

\* the value of graph while no graph has been parsed
NullGraph == GraphData(FALSE, <<>>, <<>>, <<>>)

\* the end of parseAdjacencyList, after the loop over the lines left
\* parsed = [toast, st]: null after a toast and for no node, the graph
\* otherwise; [null, toast, graph]
ParsedGraph(parsed, isDirected) ==
  IF parsed.toast # "none"
  THEN [null |-> TRUE, toast |-> parsed.toast, graph |-> NullGraph]
  ELSE LET adjacencyList == EnsureAllNodes(parsed.st.adjacencyList)
           keys == [i \in 1..Len(adjacencyList) |-> adjacencyList[i].key]
       IN IF Len(adjacencyList) = 0
          THEN [null |-> TRUE, toast |-> "Please enter at least one node",
                graph |-> NullGraph]
          ELSE [null |-> FALSE, toast |-> "none",
                graph |-> GraphData(isDirected, keys,
                                    [k \in Range(keys) |-> MapGet(adjacencyList, k)],
                                    parsed.st.edges)]

\* parseAdjacencyList of the Input page: [null, toast, graph]
parseAdjacencyList(adjacencyInput, edgeCapacities, isDirected) ==
  ParsedGraph(LineLoop(Split(Trim(adjacencyInput), "\n", <<>>), isDirected,
                       ParseCapacities(edgeCapacities),
                       [adjacencyList |-> <<>>, edges |-> <<>>]),
              isDirected)


(* ------------------------------ the inputs ----------------------------- *)

NodeIds == 0..MaxNode

\* the node ids of the flow networks: parseInt accepts a negative id
FlowIds == {-1, 0, 1, 2}

\* the capacities of the edges of the flow networks
Capacities == {1, 2}

\* the sequences of distinct elements of S: the orders in which keys are typed
RECURSIVE DistinctSeqs(_)
DistinctSeqs(S) ==
  {<<>>} \cup UNION {{<<x>> \o t : t \in DistinctSeqs(S \ {x})} : x \in S}

KeySeqs == DistinctSeqs(NodeIds) \ {<<>>}

\* the neighbour lists typed for the keys K, with at most k neighbours in
\* total, each any node id (self-loops, repeated neighbours and ids that
\* have no line of their own included)
RECURSIVE AdjUpTo(_, _)
AdjUpTo(K, k) ==
  IF k = 0 THEN {[n \in K |-> <<>>]}
  ELSE LET prev == AdjUpTo(K, k - 1)
       IN prev \cup {[a EXCEPT ![u] = Append(@, v)] : a \in prev, u \in K, v \in NodeIds}

RECURSIVE SeqsUpTo(_, _)
SeqsUpTo(S, n) ==
  IF n = 0 THEN {<<>>}
  ELSE LET prev == SeqsUpTo(S, n - 1)
       IN prev \cup {Append(t, x) : t \in prev, x \in S}

\* an edge typed as the line "from: to" with the capacity line
\* "from to: capacity"
EdgeValues == {GraphEdge(f, t, c) : f \in FlowIds, t \in FlowIds, c \in Capacities}

\* the edges between the ids 0, 1 and 2 typed with the capacity line
\* "from to: 2" or "from to: Infinity"
UnboundedEdgeValues ==
  {GraphEdge(f, t, c) : f \in 0..2, t \in 0..2, c \in {2, Infinity}}

\* the ids typed as lines "k:" before the edges: none, or all
FlowKeySets == {{}, FlowIds}

RECURSIVE AscendingSeq(_)
AscendingSeq(S) ==
  IF S = {} THEN <<>>
  ELSE LET m == CHOOSE x \in S : \A y \in S : x <= y
       IN <<m>> \o AscendingSeq(S \ {m})

\* the accepted lines "k:", one for each key
KeyLines(keys) ==
  [i \in 1..Len(keys) |-> [node |-> keys[i], neighbors |-> <<>>]]

\* the accepted lines "k: n1 n2 ...", one for each key
ListLines(keys, a) ==
  [i \in 1..Len(keys) |-> [node |-> keys[i], neighbors |-> a[keys[i]]]]

\* the accepted lines "from: to", one for each edge
EdgeLines(edges) ==
  [i \in 1..Len(edges) |->
     [node |-> edges[i].from, neighbors |-> <<edges[i].to>>]]

\* the capacityMap after the capacity lines "from to: capacity", one for
\* each edge
RECURSIVE CapacityEntries(_, _)
CapacityEntries(edges, capacityMap) ==
  IF edges = <<>> THEN capacityMap
  ELSE CapacityEntries(Tail(edges),
         SetCapacity(capacityMap, Num(Head(edges).from), Num(Head(edges).to),
                     Num(Head(edges).capacity)))

\* the loop over the lines of parseAdjacencyList on accepted lines, each
\* given as its node and its neighbours; next is the value of st after the
\* first line, with which the loop goes on
RECURSIVE AcceptedLines(_, _, _, _)
AcceptedLines(lines, isDirected, capacityMap, st) ==
  IF lines = <<>> THEN st
  ELSE CHOOSE after \in
         {AcceptedLines(Tail(lines), isDirected, capacityMap, next) :
            next \in {AddLine(Head(lines).node, Head(lines).neighbors,
                              isDirected, capacityMap, st)}} : TRUE

\* the graph parseAdjacencyList returns for accepted lines, NullGraph for
\* no line
GraphOfLines(lines, isDirected, capacityMap) ==
  ParsedGraph([toast |-> "none",
               st |-> AcceptedLines(lines, isDirected, capacityMap,
                                    [adjacencyList |-> <<>>, edges |-> <<>>])],
              isDirected).graph

\* the graph of the lines "k: n1 n2 ..." typed in the order of keys
TypedGraph(keys, a, isDirected) ==
  GraphOfLines(ListLines(keys, a), isDirected, <<>>)

\* the graph of the lines "k:" for the ids of K and a line "from: to" for
\* each edge, with the capacity lines of the edges in the capacity box,
\* which an undirected page does not have
FlowGraph(isDirected, K, edges) ==
  GraphOfLines(KeyLines(AscendingSeq(K)) \o EdgeLines(edges), isDirected,
               IF isDirected THEN CapacityEntries(edges, <<>>) ELSE <<>>)

\* s with its first r elements moved to the end
Rotate(s, r) ==
  IF s = <<>> THEN s
  ELSE LET k == r % Len(s)
       IN SubSeq(s, k + 1, Len(s)) \o SubSeq(s, 1, k)

UndirIds == 0..(UndirNodes - 1)

\* the undirected edges {u, v} over UndirIds, as the pairs with u < v
UndirPairs == {p \in UndirIds \X UndirIds : p[1] < p[2]}

\* the neighbours the edge set E gives the node u
NeighborSet(E, u) ==
  {p[2] : p \in {q \in E : q[1] = u}} \cup {p[1] : p \in {q \in E : q[2] = u}}

\* the neighbour lists typed for the undirected graph with the edge set E:
\* the list of u is its ascending neighbours rotated by rot[u], each
\* neighbour listed once (copies = 1) or the whole list twice (copies = 2)
UndirAdjacency(E, rot, copies) ==
  [u \in UndirIds |->
     LET once == Rotate(AscendingSeq(NeighborSet(E, u)), rot[u])
     IN IF copies = 2 THEN once \o once ELSE once]

\* the undirected graph of the lines "k:" for every key, which fix the
\* order of the keys, followed by the lines "k: n1 n2 ..."
UndirGraph(E, rot, keyRot, copies) ==
  LET keys == Rotate(AscendingSeq(UndirIds), keyRot)
  IN GraphOfLines(KeyLines(keys) \o ListLines(keys, UndirAdjacency(E, rot, copies)),
                  FALSE, <<>>)

\* the 4-cycle 0-1-2-3 with the pendant edge 1-4, typed as
\* "0: 1 3", "1: 0 2 4", "2: 1 3", "3: 2 0", "4: 1"
PendantCycle ==
  LET keys == <<0, 1, 2, 3, 4>>
      a == [u \in {0, 1, 2, 3, 4} |->
              CASE u = 0 -> <<1, 3>>
                [] u = 1 -> <<0, 2, 4>>
                [] u = 2 -> <<1, 3>>
                [] u = 3 -> <<2, 0>>
                [] u = 4 -> <<1>>]
  IN TypedGraph(keys, a, FALSE)

\* the directed graph {0:[1], 1:[2], 2:[0,3], 3:[]}, typed line by line
SccExample ==
  LET keys == <<0, 1, 2, 3>>
      a == [u \in {0, 1, 2, 3} |->
              CASE u = 0 -> <<1>>
                [] u = 1 -> <<2>>
                [] u = 2 -> <<0, 3>>
                [] u = 3 -> <<>>]
  IN TypedGraph(keys, a, TRUE)

\* the directed network typed as "0: 2 4", "2: 3 5", "3: 1", "4: 3", "5: 1",
\* "1:" with no capacity line: from 0 to 1 the shortest path is 0 2 3 1, and
\* the second and last flow path 0 4 3 2 5 1 goes back over the pair (2, 3)
FlowExample ==
  LET keys == <<0, 2, 3, 4, 5, 1>>
      a == [u \in {0, 1, 2, 3, 4, 5} |->
              CASE u = 0 -> <<2, 4>>
                [] u = 2 -> <<3, 5>>
                [] u = 3 -> <<1>>
                [] u = 4 -> <<3>>
                [] u = 5 -> <<1>>
                [] u = 1 -> <<>>]
  IN TypedGraph(keys, a, TRUE)

\* a GraphData without the entry of the key k, which the type allows
WithoutKey(g, k) ==
  LET keys == SelectSeq(g.keys, LAMBDA n : n # k)
  IN GraphData(g.isDirected, keys, [n \in Range(keys) |-> g.adjacencyList[n]],
               g.edges)


(* ------------------------------- the state ----------------------------- *)

VARIABLES
  graph,          \* the GraphData the engine is called on
  pc,             \* "idle" (before the call), "loop" (inside maxFlow's while),
                  \* "returned", "threw"
  op,             \* the last call: [name, args]
  result,         \* the value the last call returned
  error,          \* the error the last call threw, "none" otherwise
  residualGraph,  \* maxFlow's residualGraph
  totalFlow,      \* maxFlow's totalFlow
  pathFlow,       \* maxFlow's pathFlow of the last augmentation
  page,           \* the state of the mounted page component
  loops           \* the runAlgorithm calls suspended at an await

flowVars == <<residualGraph, totalFlow, pathFlow>>

pageVars == <<page, loops>>

vars == <<graph, pc, op, result, error, residualGraph, totalFlow, pathFlow,
          page, loops>>

NoFlowState ==
  /\ residualGraph' = <<>>
  /\ totalFlow' = 0
  /\ pathFlow' = 0

Returns(name, args, value) ==
  /\ op' = [name |-> name, args |-> args]
  /\ pc' = "returned"
  /\ result' = value
  /\ error' = "none"
  /\ graph' = graph
  /\ UNCHANGED pageVars

\* no page is mounted: the engine is called on its own
NoPage == [name |-> "none"]

EngineIdle ==
  /\ pc = "idle"
  /\ op = [name |-> "none", args |-> <<>>]
  /\ result = <<>>
  /\ error = "none"
  /\ residualGraph = <<>>
  /\ totalFlow = 0
  /\ pathFlow = 0

Idle ==
  /\ EngineIdle
  /\ page = NoPage
  /\ loops = <<>>

\* the graphs the Input page parses from the lines "k: n1 n2 ...", one for
\* each key in any order of the keys, directed and undirected
Init ==
  /\ \/ \E keys \in KeySeqs : \E a \in AdjUpTo(Range(keys), MaxArcs) :
          \E isDirected \in BOOLEAN :
            graph = TypedGraph(keys, a, isDirected)
     \/ graph = SccExample
  /\ Idle

\* the graphs the Input page parses from at most MaxEdges edge lines and
\* their capacity lines, the capacity Infinity included, and the network
\* FlowExample of seven edges
InitFlow ==
  /\ \/ \E K \in FlowKeySets : \E edges \in SeqsUpTo(EdgeValues, MaxEdges) :
          \E isDirected \in BOOLEAN :
            /\ graph = FlowGraph(isDirected, K, edges)
            /\ graph # NullGraph
     \/ \E edges \in SeqsUpTo(UnboundedEdgeValues, MaxEdges) :
          /\ graph = FlowGraph(TRUE, {}, edges)
          /\ graph # NullGraph
     \/ graph = FlowExample
  /\ Idle

\* the undirected graphs parsed from the lines of every edge set over
\* UndirIds: the simple ones with every neighbour list ascending or rotated
\* by one and every rotation of the keys, the ones with every list doubled,
\* and the 4-cycle with the pendant edge
InitUndirected ==
  /\ \/ \E E \in SUBSET UndirPairs : \E rot \in [UndirIds -> 0..1] :
          \E keyRot \in 0..(UndirNodes - 1) :
            graph = UndirGraph(E, rot, keyRot, 1)
     \/ \E E \in SUBSET UndirPairs :
          graph = UndirGraph(E, [u \in UndirIds |-> 0], 0, 2)
     \/ graph = PendantCycle
  /\ Idle

\* the graphs parsed from a line for every node id, in ascending order and
\* with at most MaxEdges neighbours
InitAll ==
  /\ \E a \in AdjUpTo(NodeIds, MaxEdges) : \E isDirected \in BOOLEAN :
       graph = TypedGraph(AscendingSeq(NodeIds), a, isDirected)
  /\ Idle

\* the exported functions take any GraphData: the graphs of InitAll with
\* the last key left out of the adjacency mapping, whose neighbour lists and
\* edges may still name it. No page of the repository passes such a graph.
InitDangling ==
  /\ \E a \in AdjUpTo(NodeIds, MaxEdges) : \E isDirected \in BOOLEAN :
       graph = WithoutKey(TypedGraph(AscendingSeq(NodeIds), a, isDirected),
                          MaxNode)
  /\ Idle

(* ------------------------------ the calls ------------------------------ *)

CallBfs(startNode) ==
  /\ pc = "idle"
  /\ Returns("bfs", <<startNode>>, bfs(graph, startNode))
  /\ NoFlowState

CallDfs(startNode) ==
  /\ pc = "idle"
  /\ Returns("dfs", <<startNode>>, dfs(graph, startNode))
  /\ NoFlowState

CallFindConnectedComponents ==
  /\ pc = "idle"
  /\ Returns("findConnectedComponents", <<>>, findConnectedComponents(graph))
  /\ NoFlowState

CallFindStronglyConnectedComponents ==
  /\ pc = "idle"
  /\ Returns("findStronglyConnectedComponents", <<>>,
             findStronglyConnectedComponents(graph))
  /\ NoFlowState

CallFindArticulationPoints ==
  /\ pc = "idle"
  /\ Returns("findArticulationPoints", <<>>, findArticulationPoints(graph))
  /\ NoFlowState

CallFindBiconnectedComponents ==
  /\ pc = "idle"
  /\ Returns("findBiconnectedComponents", <<>>, findBiconnectedComponents(graph))
  /\ NoFlowState

\* the caller has the outcome of the call and may call the engine again
RunAgain ==
  /\ pc \in {"returned", "threw"}
  /\ pc' = "idle"
  /\ UNCHANGED <<graph, op, result, error, flowVars, pageVars>>

\* maxFlow up to its while loop; the caller keeps the value of an earlier
\* identical call until this one returns, and has -1 for no value otherwise
CallMaxFlow(source, sink) ==
  /\ pc = "idle"
  /\ IF ~graph.isDirected
     THEN /\ Returns("maxFlow", <<source, sink>>, 0)
          /\ NoFlowState
     ELSE LET built == BuildResidual(graph) IN
          /\ op' = [name |-> "maxFlow", args |-> <<source, sink>>]
          /\ result' = IF op = [name |-> "maxFlow", args |-> <<source, sink>>]
                       THEN result ELSE -1
          /\ residualGraph' = built.residualGraph
          /\ totalFlow' = 0
          /\ pathFlow' = 0
          /\ pc' = IF built.threw THEN "threw" ELSE "loop"
          /\ error' = IF built.threw THEN "TypeError" ELSE "none"
          /\ UNCHANGED <<graph, pageVars>>

\* one iteration of while (true) { path = bfsPath(); if (!path) break; ... }
MaxFlowIterate ==
  /\ pc = "loop"
  /\ UNCHANGED pageVars
  /\ \E found \in {bfsPath(residualGraph, op.args[1], op.args[2])} :
       CASE found.kind = "threw" ->
              /\ pc' = "threw"
              /\ error' = "TypeError"
              /\ UNCHANGED <<graph, op, result, flowVars>>
         [] found.kind = "null" ->
              /\ pc' = "returned"
              /\ result' = totalFlow
              /\ UNCHANGED <<graph, op, error, flowVars>>
         [] found.kind = "path" ->
              \E flow \in {PathFlow(residualGraph, found.path, Infinity)} :
              /\ residualGraph' = Augment(residualGraph, found.path, flow)
              /\ totalFlow' = Plus(totalFlow, flow)
              /\ pathFlow' = flow
              /\ UNCHANGED <<graph, pc, op, result, error>>

Next ==
  \/ \E startNode \in NodeIds : CallBfs(startNode)
  \/ \E startNode \in NodeIds : CallDfs(startNode)
  \/ CallFindConnectedComponents
  \/ CallFindStronglyConnectedComponents
  \/ CallFindArticulationPoints
  \/ CallFindBiconnectedComponents

Spec == Init /\ [][Next]_vars

NextUndirected ==
  \/ CallFindConnectedComponents
  \/ CallFindArticulationPoints
  \/ CallFindBiconnectedComponents

SpecUndirected == InitUndirected /\ [][NextUndirected]_vars

NextAll ==
  \/ \E startNode \in NodeIds : CallBfs(startNode)
  \/ \E startNode \in NodeIds : CallDfs(startNode)
  \/ CallFindConnectedComponents
  \/ CallFindArticulationPoints
  \/ CallFindBiconnectedComponents
  \/ CallFindStronglyConnectedComponents
  \/ \E source \in NodeIds : \E sink \in NodeIds : CallMaxFlow(source, sink)
  \/ MaxFlowIterate
  \/ RunAgain

SpecAll == InitAll /\ [][NextAll]_vars

SpecDangling == InitDangling /\ [][NextAll]_vars

NextFlow ==
  \/ \E source \in FlowIds : \E sink \in FlowIds : CallMaxFlow(source, sink)
  \/ MaxFlowIterate
  \/ CallFindStronglyConnectedComponents

SpecFlow == InitFlow /\ [][NextFlow]_vars

\* the loop is not suspended: an iteration that can run does run
SpecFlowFair == SpecFlow /\ WF_vars(MaxFlowIterate)

(* ------------------------------ Input page ----------------------------- *)

\* the text of a line "node: n1 n2 ..."
RECURSIVE RenderNumbers(_)
RenderNumbers(numbers) ==
  IF numbers = <<>> THEN <<>>
  ELSE <<" ">> \o NumberToString(Head(numbers)) \o RenderNumbers(Tail(numbers))

RenderLine(line) ==
  NumberToString(line.node) \o <<":">> \o RenderNumbers(line.neighbors)

\* the lines joined by line breaks
RECURSIVE JoinLines(_)
JoinLines(lines) ==
  IF lines = <<>> THEN <<>>
  ELSE IF Len(lines) = 1 THEN RenderLine(Head(lines))
  ELSE RenderLine(Head(lines)) \o <<"\n">> \o JoinLines(Tail(lines))

\* the lines with at most one neighbour, and the lines with up to two
ShortLines ==
  {[node |-> n, neighbors |-> ns] : n \in NodeIds, ns \in SeqsUpTo(NodeIds, 1)}

LongLines ==
  {[node |-> n, neighbors |-> ns] : n \in NodeIds, ns \in SeqsUpTo(NodeIds, 2)}

\* texts that are not a rendering of lines: a node that is no number, a
\* neighbour with a trailing letter, a neighbour that is no number, a line
\* with two colons, a line without a colon, a negative id, blank lines and
\* repeated blanks, a line that ends with a carriage return, a hexadecimal
\* neighbour, and a no-break space and a form feed around the numbers
OtherTexts ==
  { <<"x", ":", " ", "1">>,
    <<"0", ":", " ", "1", "x">>,
    <<"0", ":", " ", "x">>,
    <<"0", ":", "1", ":", "2">>,
    <<"0", " ", "1">>,
    <<"-", "1", ":", " ", "0">>,
    <<"0", ":", "\r", "\n", "1", ":", " ", "0", "\r">>,
    <<"0", ":", " ", "0", "x", "2">>,
    <<"\\u00A0", "1", ":", "\f", "2">>,
    <<" ", "0", " ", ":", " ", " ", "1", " ", "\n", "\n", "1", ":", "\t", "2", "\n">> }

\* the texts of the adjacency box: the empty text, one or two short lines,
\* a long line, and the other texts
AdjacencyTexts ==
  {JoinLines(ls) : ls \in SeqsUpTo(ShortLines, 2)}
    \cup {RenderLine(l) : l \in LongLines}
    \cup OtherTexts

\* the texts of the capacity box: empty, "0 1: 2", "0 1: 0", "1 0:x",
\* "0 1: 2" followed by "1 0: 3", and the capacities "1e1", "0x2", ".5" and
\* "Infinity" of the edge "0 1"
CapacityTexts ==
  { <<>>,
    <<"0", " ", "1", ":", " ", "1", "e", "1">>,
    <<"0", " ", "1", ":", " ", "0", "x", "2">>,
    <<"0", " ", "1", ":", " ", ".", "5">>,
    <<"0", " ", "1", ":", " ">> \o InfinityText,
    <<"0", " ", "1", ":", " ", "2">>,
    <<"0", " ", "1", ":", " ", "0">>,
    <<"1", " ", "0", ":", "x">>,
    <<"0", " ", "1", ":", " ", "2", "\n", "1", " ", "0", ":", " ", "3">> }

\* useState("") of the Input page mounted with location.state.isDirected
InputPage(isDirected, adjacencyInput, edgeCapacities) ==
  [name |-> "Input", isDirected |-> isDirected,
   adjacencyInput |-> adjacencyInput, edgeCapacities |-> edgeCapacities,
   toast |-> "none"]

\* the state of the Index page
IndexPage == [name |-> "Index", toast |-> "none"]

\* comps.forEach((comp, index) => comp.forEach(node => colorMap.set(node, index)))
ColorMap(comps) ==
  [n \in UNION {Range(comps[i]) : i \in 1..Len(comps)} |->
     (CHOOSE i \in 1..Len(comps) :
        /\ n \in Range(comps[i])
        /\ \A j \in 1..Len(comps) : n \in Range(comps[j]) => j <= i) - 1]

\* the Visualize page as mounted with the graph: the useState initial values
\* and the effect that computes the connected components
VisualizeMounted(g) ==
  [name |-> "Visualize", algorithm |-> "bfs", isRunning |-> FALSE,
   isPaused |-> FALSE, pauseRef |-> FALSE, currentStep |-> 0,
   traversalOrder |-> <<>>, highlightedNodes |-> {},
   currentPseudocodeLine |-> 0,
   components |-> findConnectedComponents(g),
   componentColors |-> ColorMap(findConnectedComponents(g)),
   toast |-> "none"]

\* useState<any>({}): a field is <<>> while it is undefined and <<v>> when
\* it holds v
NoResults ==
  [articulationPoints |-> <<>>, bridges |-> <<>>,
   biconnectedComponents |-> <<>>, stronglyConnectedComponents |-> <<>>,
   maxFlow |-> <<>>]

\* the useState initial values of the Advanced page
AdvancedMounted ==
  [name |-> "Advanced",
   selectedOptions |-> [articulationPoints |-> FALSE, biconnected |-> FALSE,
                        stronglyConnected |-> FALSE, maxFlow |-> FALSE],
   maxFlowSource |-> <<>>, maxFlowSink |-> <<>>,
   results |-> NoResults, showAfterRemoval |-> FALSE,
   modifiedGraph |-> <<>>, toast |-> "none"]

engineVars == <<pc, op, result, error, flowVars>>

\* the Input page as mounted: both boxes empty and no graph parsed yet
InitInput ==
  /\ \E isDirected \in BOOLEAN : page = InputPage(isDirected, <<>>, <<>>)
  /\ graph = NullGraph
  /\ loops = <<>>
  /\ EngineIdle

\* the value of the last call of parseAdjacencyList is gone when the next
\* handler of the page runs
CallForgotten ==
  /\ op' = [name |-> "none", args |-> <<>>]
  /\ result' = <<>>
  /\ UNCHANGED <<graph, loops, pc, error, flowVars>>

\* onChange of the adjacency box with any text, whatever the box holds:
\* setAdjacencyInput(e.target.value)
SetAdjacencyInput(text) ==
  /\ page.name = "Input"
  /\ page' = [page EXCEPT !.adjacencyInput = text]
  /\ CallForgotten

\* onChange of the capacity box, which is rendered for a directed graph:
\* setEdgeCapacities(e.target.value)
SetEdgeCapacities(text) ==
  /\ page.name = "Input"
  /\ page.isDirected
  /\ page' = [page EXCEPT !.edgeCapacities = text]
  /\ CallForgotten

\* handleVisualize: parse, and navigate to the Visualize page with the
\* graph; op and result record the call of parseAdjacencyList and its value
HandleVisualize ==
  /\ page.name = "Input"
  /\ \E parsed \in {parseAdjacencyList(page.adjacencyInput, page.edgeCapacities,
                                         page.isDirected)} :
        /\ op' = [name |-> "parseAdjacencyList",
                  args |-> <<page.adjacencyInput, page.edgeCapacities,
                             page.isDirected>>]
        /\ result' = parsed
        /\ IF parsed.null
           THEN /\ page' = [page EXCEPT !.toast = parsed.toast]
                /\ UNCHANGED graph
           ELSE /\ page' = VisualizeMounted(parsed.graph)
                /\ graph' = parsed.graph
  /\ UNCHANGED <<loops, pc, error, flowVars>>

\* Back to Home: navigate("/")
BackToHome ==
  /\ page.name = "Input"
  /\ page' = IndexPage
  /\ CallForgotten

\* handleSelection(type): navigate("/input", { state: { isDirected } })
HandleSelection(type) ==
  /\ page.name = "Index"
  /\ page' = InputPage(type = "directed", <<>>, <<>>)
  /\ UNCHANGED <<graph, loops, engineVars>>

NextInput ==
  \/ \E text \in AdjacencyTexts : SetAdjacencyInput(text)
  \/ \E text \in CapacityTexts : SetEdgeCapacities(text)
  \/ HandleVisualize
  \/ BackToHome
  \/ \E type \in {"directed", "undirected"} : HandleSelection(type)

SpecInput == InitInput /\ [][NextInput]_vars

(* ---------------------------- Visualize page --------------------------- *)

\* the steps of one bfs or dfs call with their index i in the call
Indexed(steps) ==
  [i \in 1..Len(steps) |->
     [node |-> steps[i].node, visited |-> steps[i].visited, i |-> i - 1]]

\* for (const node of allNodes) if (!visited.has(node)) { steps = ...; for
\* each step: visited.add(step.node) }: the steps in the order they are shown
RECURSIVE PlaybackSteps(_, _, _, _)
PlaybackSteps(g, algorithm, allNodes, visited) ==
  IF allNodes = <<>> THEN <<>>
  ELSE IF Head(allNodes) \in visited
       THEN PlaybackSteps(g, algorithm, Tail(allNodes), visited)
       ELSE LET steps == IF algorithm = "bfs" THEN bfs(g, Head(allNodes))
                         ELSE dfs(g, Head(allNodes))
            IN Indexed(steps)
                 \o PlaybackSteps(g, algorithm, Tail(allNodes),
                                  visited \cup {steps[i].node : i \in 1..Len(steps)})

\* all the steps a runAlgorithm call shows, over allNodes = the keys
PlaybackOf(g, algorithm) == PlaybackSteps(g, algorithm, NodesOf(g), {})

\* setHighlightedNodes, setTraversalOrder([...fullOrder]) and
\* setCurrentPseudocodeLine for the step the loop shows next
ShowStep(p, loop, step) ==
  [p EXCEPT !.highlightedNodes = step.visited,
            !.traversalOrder = Append(loop.fullOrder, step.node),
            !.currentPseudocodeLine =
               IF loop.algorithm = "bfs" THEN (step.i % 5) + 1
               ELSE (step.i % 4) + 1]

\* the sequence without its k-th element
RemoveAt(s, k) == SubSeq(s, 1, k - 1) \o SubSeq(s, k + 1, Len(s))

\* the texts the graphs of the Visualize page are parsed from
PlaybackTexts == {JoinLines(ls) : ls \in SeqsUpTo(ShortLines, MaxLines)}

InitVisualize ==
  /\ \E isDirected \in BOOLEAN : \E adjacencyInput \in PlaybackTexts :
       \E parsed \in {parseAdjacencyList(adjacencyInput, <<>>, isDirected)} :
         /\ ~parsed.null
         /\ graph = parsed.graph
  /\ page = VisualizeMounted(graph)
  /\ loops = <<>>
  /\ EngineIdle

\* the radio group: setAlgorithm(v)
SetAlgorithm(v) ==
  /\ page.name = "Visualize"
  /\ page.algorithm # v
  /\ page' = [page EXCEPT !.algorithm = v]
  /\ UNCHANGED <<graph, loops, engineVars>>

\* click on Run Algorithm (disabled while isRunning): runAlgorithm up to its
\* first await, which is the timer after the first step
RunAlgorithm ==
  /\ page.name = "Visualize"
  /\ ~page.isRunning
  /\ graph # NullGraph
  /\ Len(loops) < MaxLoops
  /\ LET steps == PlaybackOf(graph, page.algorithm)
         started == [page EXCEPT !.isRunning = TRUE, !.isPaused = FALSE,
                                 !.pauseRef = FALSE, !.currentStep = 0,
                                 !.highlightedNodes = {},
                                 !.traversalOrder = <<>>,
                                 !.currentPseudocodeLine = 0]
         loop == [algorithm |-> page.algorithm, fullOrder |-> <<>>,
                  waiting |-> "step"]
     IN /\ page' = ShowStep(started, loop, steps[1])
        /\ loops' = Append(loops, [loop EXCEPT !.fullOrder = <<steps[1].node>>])
  /\ UNCHANGED <<graph, engineVars>>

\* the timer a suspended runAlgorithm call awaits fires: the call goes on
\* to its next await or to its end
TimerFires(k) ==
  /\ page.name = "Visualize"
  /\ k \in 1..Len(loops)
  /\ LET loop == loops[k]
         steps == PlaybackOf(graph, loop.algorithm)
         next == Len(loop.fullOrder) + 1
     IN IF next > Len(steps)
        THEN /\ page' = [page EXCEPT !.isRunning = FALSE,
                                     !.currentPseudocodeLine = 0]
             /\ loops' = RemoveAt(loops, k)
        ELSE IF page.pauseRef
        THEN /\ loops' = [loops EXCEPT ![k].waiting = "pause"]
             /\ UNCHANGED page
        ELSE /\ page' = ShowStep(page, loop, steps[next])
             /\ loops' = [loops EXCEPT
                            ![k] = [algorithm |-> loop.algorithm,
                                    fullOrder |-> Append(loop.fullOrder,
                                                         steps[next].node),
                                    waiting |-> "step"]]
  /\ UNCHANGED <<graph, engineVars>>

\* click on Reset
HandleReset ==
  /\ page.name = "Visualize"
  /\ page' = [page EXCEPT !.currentStep = 0, !.highlightedNodes = {},
                          !.traversalOrder = <<>>, !.isRunning = FALSE,
                          !.isPaused = FALSE, !.currentPseudocodeLine = 0,
                          !.pauseRef = FALSE]
  /\ UNCHANGED <<graph, loops, engineVars>>

\* click on Pause / Resume, rendered while isRunning
HandlePauseResume ==
  /\ page.name = "Visualize"
  /\ page.isRunning
  /\ page' = [page EXCEPT !.isPaused = ~page.isPaused,
                          !.pauseRef = ~page.pauseRef]
  /\ UNCHANGED <<graph, loops, engineVars>>

\* Back to Input: navigate("/input", { state: { isDirected } }); the
\* suspended loops of the unmounted page set no state any more
BackToInput ==
  /\ page.name = "Visualize"
  /\ page' = InputPage(graph.isDirected, <<>>, <<>>)
  /\ graph' = NullGraph
  /\ loops' = <<>>
  /\ UNCHANGED engineVars

\* handleAdvancedAnalysis: navigate("/advanced", { state: { graph } })
HandleAdvancedAnalysis ==
  /\ page.name = "Visualize"
  /\ page' = AdvancedMounted
  /\ loops' = <<>>
  /\ UNCHANGED <<graph, engineVars>>

NextVisualize ==
  \/ \E v \in {"bfs", "dfs"} : SetAlgorithm(v)
  \/ BackToInput
  \/ HandleAdvancedAnalysis
  \/ RunAlgorithm
  \/ \E k \in 1..MaxLoops : TimerFires(k)
  \/ HandleReset
  \/ HandlePauseResume

SpecVisualize == InitVisualize /\ [][NextVisualize]_vars

(* ----------------------------- Advanced page --------------------------- *)

\* while (true) { path = bfsPath(); if (!path) break; ... } return totalFlow
RECURSIVE MaxFlowLoop(_, _, _, _)
MaxFlowLoop(rg, source, sink, flowSoFar) ==
  LET found == bfsPath(rg, source, sink) IN
  IF found.kind = "threw" THEN [threw |-> TRUE, value |-> 0]
  ELSE IF found.kind = "null" THEN [threw |-> FALSE, value |-> flowSoFar]
  ELSE LET flow == PathFlow(rg, found.path, Infinity)
       IN MaxFlowLoop(Augment(rg, found.path, flow), source, sink,
                      Plus(flowSoFar, flow))

\* maxFlow(graph, source, sink) as one call: its value, or threw
maxFlow(g, source, sink) ==
  IF ~g.isDirected THEN [threw |-> FALSE, value |-> 0]
  ELSE LET built == BuildResidual(g)
       IN IF built.threw THEN [threw |-> TRUE, value |-> 0]
          ELSE MaxFlowLoop(built.residualGraph, source, sink, 0)

\* newResults after the three analyses that are selected
AnalysisResults(g, selectedOptions) ==
  LET ap == findArticulationPoints(g)
  IN [articulationPoints |->
        IF selectedOptions.articulationPoints THEN <<ap.points>> ELSE <<>>,
      bridges |->
        IF selectedOptions.articulationPoints THEN <<ap.bridges>> ELSE <<>>,
      biconnectedComponents |->
        IF selectedOptions.biconnected
        THEN <<findBiconnectedComponents(g)>> ELSE <<>>,
      stronglyConnectedComponents |->
        IF selectedOptions.stronglyConnected /\ g.isDirected
        THEN <<findStronglyConnectedComponents(g)>> ELSE <<>>,
      maxFlow |-> <<>>]

\* the results state when the handler returns at a rejection with
\* newResults partly filled
ResultsSoFar(results, newResults) == newResults

\* the results state when the handler returns before setResults
ResultsAtReturn(results, newResults) == results

\* the texts of the source and sink fields: empty, "0" and "2"
NodeTexts == {<<>>, <<"0">>, <<"2">>}

\* the texts the graphs of the Advanced page are parsed from:
\* "0: 1" then "1: 2", and "0: 1"
AdvancedTexts ==
  { <<"0", ":", " ", "1", "\n", "1", ":", " ", "2">>,
    <<"0", ":", " ", "1">> }

InitAdvanced ==
  /\ \E isDirected \in BOOLEAN : \E adjacencyInput \in AdvancedTexts :
       \E parsed \in {parseAdjacencyList(adjacencyInput, <<>>, isDirected)} :
         /\ ~parsed.null
         /\ graph = parsed.graph
  /\ page = AdvancedMounted
  /\ loops = <<>>
  /\ EngineIdle

\* a checkbox: setSelectedOptions({ ...selectedOptions, [option]: checked });
\* the stronglyConnected box is rendered for a directed graph only
SetSelectedOptions(option, checked) ==
  /\ page.name = "Advanced"
  /\ option = "stronglyConnected" => graph.isDirected
  /\ page.selectedOptions[option] # checked
  /\ page' = [page EXCEPT !.selectedOptions[option] = checked]
  /\ UNCHANGED <<graph, loops, engineVars>>

\* the source field, rendered while the maxFlow box is checked:
\* setMaxFlowSource(e.target.value)
SetMaxFlowSource(text) ==
  /\ page.name = "Advanced"
  /\ page.selectedOptions.maxFlow
  /\ page.maxFlowSource # text
  /\ page' = [page EXCEPT !.maxFlowSource = text]
  /\ UNCHANGED <<graph, loops, engineVars>>

\* the sink field, rendered while the maxFlow box is checked:
\* setMaxFlowSink(e.target.value)
SetMaxFlowSink(text) ==
  /\ page.name = "Advanced"
  /\ page.selectedOptions.maxFlow
  /\ page.maxFlowSink # text
  /\ page' = [page EXCEPT !.maxFlowSink = text]
  /\ UNCHANGED <<graph, loops, engineVars>>

\* the toast of the rejection of the max-flow request, "none" when the
\* request passes the four tests
Rejection(g, source, sink) ==
  IF source.nan \/ sink.nan THEN "Invalid source or sink value"
  ELSE IF ~HasNode(g, source.value) THEN "Invalid source node"
  ELSE IF ~HasNode(g, sink.value) THEN "Invalid sink node"
  ELSE IF source.value = sink.value
  THEN "Source and sink must be different nodes"
  ELSE "none"

\* newResults.maxFlow = { value: flow, source, sink }; setResults(newResults)
WithFlow(newResults, flow, source, sink) ==
  [newResults EXCEPT
     !.maxFlow = <<[value |-> flow, source |-> source, sink |-> sink]>>]

\* handleRunAnalysis as a function of the graph and the page; an error
\* thrown by maxFlow leaves the handler before any state is set
PageAfterRun(g, p) ==
  LET newResults == AnalysisResults(g, p.selectedOptions)
      source == ParseInt(p.maxFlowSource)
      sink == ParseInt(p.maxFlowSink)
      message == Rejection(g, source, sink)
      flow == maxFlow(g, source.value, sink.value)
      results == IF ~p.selectedOptions.maxFlow THEN newResults
                 ELSE IF message # "none"
                 THEN ResultsAtReturn(p.results, newResults)
                 ELSE IF flow.threw THEN p.results
                 ELSE WithFlow(newResults, flow.value, source.value, sink.value)
      toast == IF ~p.selectedOptions.maxFlow THEN "Analysis complete!"
               ELSE IF message # "none" THEN message
               ELSE IF flow.threw THEN p.toast
               ELSE "Analysis complete!"
  IN [p EXCEPT !.results = results, !.toast = toast]

\* click on Run Analysis
HandleRunAnalysis ==
  /\ page.name = "Advanced"
  /\ graph # NullGraph
  /\ page' = PageAfterRun(graph, page)
  /\ UNCHANGED <<graph, loops, engineVars>>

\* the graph without the nodes of points and without their edges
WithoutNodes(g, points) ==
  LET keys == SelectSeq(g.keys, LAMBDA n : n \notin points)
  IN GraphData(g.isDirected, keys,
       [n \in Range(keys) |->
          SelectSeq(g.adjacencyList[n], LAMBDA v : v \notin points)],
       SelectSeq(g.edges, LAMBDA e : e.from \notin points /\ e.to \notin points))

\* click on Show Graph After Removal, rendered while the results hold an
\* articulation point: handleShowAfterRemoval
HandleShowAfterRemoval ==
  /\ page.name = "Advanced"
  /\ graph # NullGraph
  /\ page.results.articulationPoints # <<>>
  /\ page.results.articulationPoints[1] # <<>>
  /\ page' = [page EXCEPT
                !.modifiedGraph =
                   <<WithoutNodes(graph, Range(page.results.articulationPoints[1]))>>,
                !.showAfterRemoval = TRUE]
  /\ UNCHANGED <<graph, loops, engineVars>>

\* click on Show Original Graph, rendered while showAfterRemoval
ShowOriginalGraph ==
  /\ page.name = "Advanced"
  /\ page.showAfterRemoval
  /\ page' = [page EXCEPT !.showAfterRemoval = FALSE]
  /\ UNCHANGED <<graph, loops, engineVars>>

\* Back to Visualization: navigate("/visualize", { state: { graph } })
BackToVisualization ==
  /\ page.name = "Advanced"
  /\ page' = VisualizeMounted(graph)
  /\ UNCHANGED <<graph, loops, engineVars>>

NextAdvanced ==
  \/ BackToVisualization
  \/ \E option \in {"articulationPoints", "biconnected", "stronglyConnected",
                    "maxFlow"} :
       \E checked \in BOOLEAN : SetSelectedOptions(option, checked)
  \/ \E text \in NodeTexts : SetMaxFlowSource(text)
  \/ \E text \in NodeTexts : SetMaxFlowSink(text)
  \/ HandleRunAnalysis
  \/ HandleShowAfterRemoval
  \/ ShowOriginalGraph

SpecAdvanced == InitAdvanced /\ [][NextAdvanced]_vars

(* ------------------------- notions of the claims ----------------------- *)

Called(name) == op.name = name /\ pc # "idle"

Returned(name) == op.name = name /\ pc = "returned"

\* the nodes reachable from the nodes of S along adjacency edges
RECURSIVE ReachClosure(_, _)
ReachClosure(g, S) ==
  LET next == S \cup UNION {Range(Neighbors(g, n)) : n \in S}
  IN IF next = S THEN S ELSE ReachClosure(g, next)

Reachable(g, s) == ReachClosure(g, {s})

Keys(g) == DOMAIN g.adjacencyList

\* v is listed by u exactly when u is listed by v, and both are keys
Symmetric(g) ==
  \A u \in Keys(g) : \A v \in Range(g.adjacencyList[u]) :
    v \in Keys(g) /\ u \in Range(g.adjacencyList[v])

StepNodes(steps) == {steps[i].node : i \in 1..Len(steps)}

NoNodeTwice(steps) ==
  \A i \in 1..Len(steps) : \A j \in 1..Len(steps) :
    steps[i].node = steps[j].node => i = j

IsAscending(s) == \A i \in 1..(Len(s) - 1) : s[i] < s[i + 1]

\* the capacity the edge list gives the ordered pair (u, v): that of its
\* last entry, 0 when it has none
RECURSIVE LastCapacity(_, _, _)
LastCapacity(edges, u, v) ==
  IF edges = <<>> THEN 0
  ELSE LET e == edges[Len(edges)] IN
       IF e.from = u /\ e.to = v THEN e.capacity
       ELSE LastCapacity(SubSeq(edges, 1, Len(edges) - 1), u, v)

RECURSIVE SumOverPairs(_, _)
SumOverPairs(edges, pairs) ==
  IF pairs = {} THEN 0
  ELSE LET p == CHOOSE q \in pairs : TRUE
       IN LastCapacity(edges, p[1], p[2]) + SumOverPairs(edges, pairs \ {p})

\* the nodes of a network: its keys and the endpoints of its edges
NetworkNodes(g) ==
  Keys(g) \cup {g.edges[i].from : i \in 1..Len(g.edges)}
          \cup {g.edges[i].to : i \in 1..Len(g.edges)}

CutCapacity(g, S) == SumOverPairs(g.edges, S \X (NetworkNodes(g) \ S))

\* the capacity of a minimum source/sink cut
MinCut(g, source, sink) ==
  LET cuts == {S \in SUBSET NetworkNodes(g) : source \in S /\ sink \notin S}
      values == {CutCapacity(g, S) : S \in cuts}
  IN CHOOSE m \in values : \A x \in values : m <= x

\* the edges of positive capacity, as an adjacency relation
EdgeReachable(g, source) ==
  LET step(S) == S \cup {g.edges[i].to : i \in {j \in 1..Len(g.edges) :
                            g.edges[j].from \in S /\ g.edges[j].capacity > 0}}
      closure[k \in 0..Len(g.edges)] ==
        IF k = 0 THEN {source} ELSE step(closure[k - 1])
  IN closure[Len(g.edges)]

\* the total capacity of the edge-list entries leaving source
RECURSIVE SourceCapacity(_, _)
SourceCapacity(edges, source) ==
  IF edges = <<>> THEN 0
  ELSE (IF Head(edges).from = source THEN Head(edges).capacity ELSE 0)
       + SourceCapacity(Tail(edges), source)

\* every edge joins two keys with non-negative ids
PlainNetwork(g) ==
  \A i \in 1..Len(g.edges) :
    /\ g.edges[i].from \in Keys(g) /\ g.edges[i].from >= 0
    /\ g.edges[i].to \in Keys(g) /\ g.edges[i].to >= 0

\* the neighbour entries of a graph as ordered pairs
Arcs(g) ==
  UNION {{<<u, v>> : v \in Range(g.adjacencyList[u]) \cap Keys(g)} : u \in Keys(g)}

\* the nodes of V joined to a node of S by a path of pairs of R inside V
RECURSIVE Closure(_, _, _)
Closure(S, V, R) ==
  LET next == S \cup {v \in V : \E u \in S : <<u, v>> \in R}
  IN IF next = S THEN S ELSE Closure(next, V, R)

\* the number of connected components of the nodes V under the symmetric
\* relation R
ComponentCount(V, R) == Cardinality({Closure({v}, V, R) : v \in V})

\* how often x occurs in the list s
Occurrences(s, x) == Cardinality({i \in 1..Len(s) : s[i] = x})

\* symmetric adjacency, no self-loops, no repeated neighbours
Simple(g) ==
  /\ Symmetric(g)
  /\ \A u \in Keys(g) :
       /\ u \notin Range(g.adjacencyList[u])
       /\ \A v \in Range(g.adjacencyList[u]) : Occurrences(g.adjacencyList[u], v) = 1

\* removing the node u increases the number of connected components
IsCutNode(g, u) ==
  ComponentCount(Keys(g) \ {u}, Arcs(g)) > ComponentCount(Keys(g), Arcs(g))

\* removing the undirected edge {u, v} increases the number of components
IsCutEdge(g, u, v) ==
  ComponentCount(Keys(g), Arcs(g) \ {<<u, v>>, <<v, u>>})
    > ComponentCount(Keys(g), Arcs(g))

\* every neighbour entry of the adjacency mapping as an ordered pair, the
\* entries that name no key included
MappingEdges(g) ==
  UNION {{<<u, v>> : v \in Range(g.adjacencyList[u])} : u \in Keys(g)}

\* the keys and every id a neighbour list names
GraphNodes(g) == Keys(g) \cup {p[2] : p \in MappingEdges(g)}

\* the indices of the returned node lists that contain all of S
ComponentsWith(components, S) ==
  {i \in 1..Len(components) : S \subseteq Range(components[i])}

\* a neighbour list names an id that is no key
Dangling(g) == \E p \in MappingEdges(g) : p[2] \notin Keys(g)

\* the ordered pairs that several entries of the edge list give
RepeatedPairs(edges) ==
  {<<edges[i].from, edges[i].to>> : i \in {k \in 1..Len(edges) :
     \E j \in 1..Len(edges) :
       j # k /\ edges[j].from = edges[k].from /\ edges[j].to = edges[k].to}}

\* the first element of the list s that is not in seen; s has one
FirstNotIn(s, seen) == s[CHOOSE i \in 1..Len(s) :
                          s[i] \notin seen /\ \A j \in 1..(i - 1) : s[j] \in seen]

\* the nodes of the first k steps
NodesUpTo(steps, k) == {steps[i].node : i \in 1..k}

\* the residual capacity rg holds for the ordered pair (u, v), 0 for none
Residual(rg, u, v) ==
  IF u \in DOMAIN rg /\ MapHas(rg[u], v) THEN MapGet(rg[u], v) ELSE 0

\* the residual graph of the graph before the first augmentation
InitialResidual(g) == BuildResidual(g).residualGraph

\* the sum of f(x) over the elements x of S
RECURSIVE SumOver(_, _)
SumOver(S, f) ==
  IF S = {} THEN 0
  ELSE LET x == CHOOSE y \in S : TRUE IN f[x] + SumOver(S \ {x}, f)

\* every edge of the edge list joins two keys
EdgesJoinKeys(g) ==
  \A i \in 1..Len(g.edges) :
    g.edges[i].from \in Keys(g) /\ g.edges[i].to \in Keys(g)

\* a non-negative integer: neither an infinity nor NaN
IsNaturalNumber(x) == x \in 0..(Infinity - 1)

\* every capacity of the edge list is a positive integer
PositiveIntegerCapacities(g) ==
  \A i \in 1..Len(g.edges) : g.edges[i].capacity \in 1..(Infinity - 1)

\* the call is in its loop and has not augmented yet
BeforeFirstAugmentation == pc = "loop" /\ totalFlow = 0 /\ pathFlow = 0

(* -------------------------------- claims ------------------------------- *)

\* C1: for a start node that is a key, the nodes of the steps bfs returns
\* are exactly the nodes reachable from the start node along adjacency
\* edges, and no node occurs in two steps.
C1_BfsVisitsReachableOnce ==
  (Returned("bfs") /\ HasNode(graph, op.args[1])) =>
    /\ StepNodes(result) = Reachable(graph, op.args[1])
    /\ NoNodeTwice(result)

\* a bfs from a key that emits three nodes although a neighbour entry leads
\* back to a visited node and a repeated neighbour is listed
C1_Witness ==
  /\ Returned("bfs")
  /\ HasNode(graph, op.args[1])
  /\ Len(result) = 3
  /\ Len(graph.edges) = MaxArcs
  /\ \E i \in 1..Len(graph.edges) : graph.edges[i].to = op.args[1]

\* C2: in the steps bfs returns for a start node that is a key, the first
\* visited set has one element and every later one has exactly one element
\* more than the one before it.
C2_BfsVisitedGrowsByOne ==
  (Returned("bfs") /\ HasNode(graph, op.args[1])) =>
    /\ Cardinality(result[1].visited) = 1
    /\ \A i \in 2..Len(result) :
         Cardinality(result[i].visited) = Cardinality(result[i - 1].visited) + 1

\* C3: maxFlow(G, s, s) on a directed graph with s a key fails with
\* InvalidRequest: the call returns no flow value, accumulates no flow, and
\* once it is past its first path search it has failed with InvalidRequest.
C3_SourceEqualsSinkRejected ==
  (Called("maxFlow") /\ graph.isDirected /\ PlainNetwork(graph)
     /\ op.args[1] = op.args[2] /\ HasNode(graph, op.args[1])) =>
    \/ pc = "threw" /\ error = "InvalidRequest"
    \/ pc = "loop" /\ totalFlow = 0 /\ pathFlow = 0

\* C4: for positive integer capacities and distinct keys source and sink,
\* maxFlow returns the capacity of a minimum source/sink cut, and returns 0
\* exactly when sink is not reachable from source over the edges.
C4_MaxFlowIsMinCut ==
  (Returned("maxFlow") /\ graph.isDirected /\ op.args[1] # op.args[2]
     /\ PositiveIntegerCapacities(graph)
     /\ HasNode(graph, op.args[1]) /\ HasNode(graph, op.args[2])) =>
    /\ result = MinCut(graph, op.args[1], op.args[2])
    /\ result = 0 <=> op.args[2] \notin EdgeReachable(graph, op.args[1])

\* C5 (safety part): for positive integer capacities and distinct keys
\* source and sink, every augmentation adds a bottleneck of at least 1 and
\* the accumulated flow never exceeds the total capacity of the edges
\* leaving source.
C5_FlowBoundedBySourceCapacity ==
  (Called("maxFlow") /\ graph.isDirected /\ op.args[1] # op.args[2]
     /\ PositiveIntegerCapacities(graph)
     /\ HasNode(graph, op.args[1]) /\ HasNode(graph, op.args[2])) =>
    /\ totalFlow <= SourceCapacity(graph.edges, op.args[1])
    /\ totalFlow > 0 => pathFlow >= 1

\* C5, the termination part, which holds under SpecFlowFair: the
\* augmentation loop of a call with distinct source and sink ends.
FlowLoopEnds ==
  [](pc = "loop" /\ op.args[1] # op.args[2] => <>(pc # "loop"))

\* C5, the bottleneck part, which holds: an augmentation of a call with
\* distinct source and sink adds at least 1 to the accumulated flow.
AugmentationAddsAtLeastOne ==
  [][(pc = "loop" /\ pc' = "loop" /\ op.args[1] # op.args[2]) =>
       (pathFlow' >= 1 /\ totalFlow' = Plus(totalFlow, pathFlow'))]_vars

\* C4 and C5 hold of the networks whose edges join keys with non-negative
\* ids, on which the encoding of a pair as a key is decoded to the same pair.
MaxFlowIsMinCutOnPlainNetworks == PlainNetwork(graph) => C4_MaxFlowIsMinCut

FlowBoundedOnPlainNetworks == PlainNetwork(graph) => C5_FlowBoundedBySourceCapacity

\* C6: maxFlow on a directed graph fails with NodeNotFound when source or
\* sink is no key of the adjacency mapping: the call returns no flow value
\* and throws nothing else.
C6_MaxFlowNodeNotFound ==
  (Called("maxFlow") /\ graph.isDirected /\ PlainNetwork(graph)
     /\ (~HasNode(graph, op.args[1]) \/ ~HasNode(graph, op.args[2]))) =>
    /\ pc # "returned"
    /\ pc = "threw" => error = "NodeNotFound"

\* C7: on a graph with isDirected = false, maxFlow and
\* findStronglyConnectedComponents fail with NotApplicable instead of
\* returning a result value.
C7_UndirectedFailsNotApplicable ==
  (~graph.isDirected
     /\ (Called("maxFlow") \/ Called("findStronglyConnectedComponents"))) =>
    pc = "threw" /\ error = "NotApplicable"

\* what the code does instead: on a graph with isDirected = false, maxFlow
\* returns 0 and findStronglyConnectedComponents returns the empty list,
\* whatever the graph, the source and the sink; neither throws.
UndirectedReturnsEmpty ==
  /\ (~graph.isDirected /\ Called("maxFlow")) =>
       pc = "returned" /\ error = "none" /\ result = 0
  /\ (~graph.isDirected /\ Called("findStronglyConnectedComponents")) =>
       pc = "returned" /\ error = "none" /\ result = <<>>

\* findStronglyConnectedComponents was called on an undirected graph that
\* has nodes and an edge between two different keys
UndirectedReturnsEmptyWitness ==
  /\ ~graph.isDirected
  /\ Returned("findStronglyConnectedComponents")
  /\ \E i \in 1..Len(graph.edges) :
       /\ graph.edges[i].from # graph.edges[i].to
       /\ HasNode(graph, graph.edges[i].from)
       /\ HasNode(graph, graph.edges[i].to)

\* C8: bfs and dfs fail with NodeNotFound, returning no steps, when the
\* start node is no key of the adjacency mapping.
C8_TraversalNodeNotFound ==
  ((Called("bfs") \/ Called("dfs")) /\ ~HasNode(graph, op.args[1])) =>
    pc = "threw" /\ error = "NodeNotFound"

\* C9: on a symmetric adjacency mapping the components returned by
\* findConnectedComponents are pairwise disjoint, their union is the set of
\* keys, and two keys are in the same component exactly when one is
\* reachable from the other.
C9_ComponentsPartition ==
  (Returned("findConnectedComponents") /\ Symmetric(graph)) =>
    /\ \A i \in 1..Len(result) : \A j \in 1..Len(result) :
         i # j => Range(result[i]) \cap Range(result[j]) = {}
    /\ \A i \in 1..Len(result) : \A x \in 1..Len(result[i]) :
         \A y \in 1..Len(result[i]) : result[i][x] = result[i][y] => x = y
    /\ UNION {Range(result[i]) : i \in 1..Len(result)} = Keys(graph)
    /\ \A u \in Keys(graph) : \A v \in Keys(graph) :
         (\E i \in 1..Len(result) : {u, v} \subseteq Range(result[i]))
           <=> v \in Reachable(graph, u)

\* a symmetric graph with an edge between two different nodes that falls
\* into more than one component
C9_Witness ==
  /\ Returned("findConnectedComponents")
  /\ Symmetric(graph)
  /\ Len(result) >= 2
  /\ \E i \in 1..Len(result) : Len(result[i]) >= 2

\* C10: whatever the insertion order of the keys, the k-th component
\* returned by findConnectedComponents holds the smallest key that is in
\* none of the components before it, and every component is sorted
\* ascending.
C10_ComponentsInAscendingSeedOrder ==
  Returned("findConnectedComponents") =>
    /\ \A k \in 1..Len(result) :
         LET before == UNION {Range(result[i]) : i \in 1..(k - 1)}
             rest == Keys(graph) \ before
         IN \A n \in rest : (\A m \in rest : n <= m) => n \in Range(result[k])
    /\ \A k \in 1..Len(result) : IsAscending(result[k])

\* C11: on a simple undirected graph the points findArticulationPoints
\* returns are exactly the nodes whose removal increases the number of
\* connected components; on the 4-cycle with the pendant edge 1-4 they
\* are {1}.
C11_PointsAreCutNodes ==
  (Returned("findArticulationPoints") /\ Simple(graph)) =>
    /\ Range(result.points) = {u \in Keys(graph) : IsCutNode(graph, u)}
    /\ graph = PendantCycle => Range(result.points) = {1}

\* the articulation points of the 4-cycle with the pendant edge 1-4
C11_Witness ==
  /\ Returned("findArticulationPoints")
  /\ graph = PendantCycle
  /\ result.points = <<1>>

\* C12: on a simple undirected graph the bridges findArticulationPoints
\* returns are exactly the undirected edges whose removal increases the
\* number of connected components, each reported once, as (u, v) with u
\* the DFS parent of v; on the 4-cycle with the pendant edge 1-4 the only
\* bridge is (1, 4).
C12_BridgesAreCutEdges ==
  (Returned("findArticulationPoints") /\ Simple(graph)) =>
    /\ {{b[1], b[2]} : b \in Range(result.bridges)}
         = {{p[1], p[2]} : p \in {q \in Arcs(graph) :
                                   q[1] < q[2] /\ IsCutEdge(graph, q[1], q[2])}}
    /\ \A i \in 1..Len(result.bridges) : \A j \in 1..Len(result.bridges) :
         {result.bridges[i][1], result.bridges[i][2]}
           = {result.bridges[j][1], result.bridges[j][2]} => i = j
    /\ \A b \in Range(result.bridges) : ApRun(graph).parent[b[2]] = <<b[1]>>
    /\ graph = PendantCycle => result.bridges = << <<1, 4>> >>

\* a simple undirected graph with an edge that is no bridge and a bridge
\* that is reported from the greater id to the smaller
C12_Witness ==
  /\ Returned("findArticulationPoints")
  /\ Simple(graph)
  /\ Len(result.bridges) = 1
  /\ result.bridges[1][1] > result.bridges[1][2]
  /\ \E p \in Arcs(graph) : ~IsCutEdge(graph, p[1], p[2])

\* C13: when v is listed twice in the list of u and u twice in the list of
\* v, findArticulationPoints does not report (u, v) as a bridge.
C13_ParallelEdgeIsNoBridge ==
  Returned("findArticulationPoints") =>
    \A b \in Range(result.bridges) :
      ~(/\ Occurrences(Neighbors(graph, b[1]), b[2]) >= 2
        /\ Occurrences(Neighbors(graph, b[2]), b[1]) >= 2)

\* C14: for every input graph, every edge (u, v) of the adjacency mapping
\* belongs to exactly one component findBiconnectedComponents returns:
\* exactly one returned component contains both u and v.
C14_EveryEdgeInOneComponent ==
  Returned("findBiconnectedComponents") =>
    \A p \in MappingEdges(graph) :
      Cardinality(ComponentsWith(result, {p[1], p[2]})) = 1

\* C14 holds of the simple undirected graphs.
EveryEdgeInOneComponentOnSimple ==
  Simple(graph) => C14_EveryEdgeInOneComponent

\* C15: in the result of findBiconnectedComponents every node with an
\* incident edge is in at least one component, a key with an empty list
\* that no list names is in none, and the edge stack is empty at the end
\* of the loop body of each root.
C15_NodesWithEdgesAreCovered ==
  Returned("findBiconnectedComponents") =>
    /\ \A p \in MappingEdges(graph) :
         /\ ComponentsWith(result, {p[1]}) # {}
         /\ ComponentsWith(result, {p[2]}) # {}
    /\ \A n \in Keys(graph) :
         (\A p \in MappingEdges(graph) : p[1] # n /\ p[2] # n)
           => ComponentsWith(result, {n}) = {}
    /\ \A k \in 1..Len(BccRun(graph).leftOnStack) :
         BccRun(graph).leftOnStack[k] = 0

\* C15 holds of the graphs without self-loops, directed adjacency, repeated
\* neighbours and ids that are no key included.
NodesWithEdgesAreCoveredWithoutLoops ==
  (\A p \in MappingEdges(graph) : p[1] # p[2]) => C15_NodesWithEdgesAreCovered

\* C16: on a directed graph the sets findStronglyConnectedComponents
\* returns are pairwise disjoint, their union is the set of the nodes of
\* the graph (the keys and the ids the neighbour lists name), and two
\* nodes are in the same set exactly when each is reachable from the
\* other; for {0:[1], 1:[2], 2:[0,3], 3:[]} the result is [[0,1,2],[3]].
C16_SccPartition ==
  (Returned("findStronglyConnectedComponents") /\ graph.isDirected) =>
    /\ \A i \in 1..Len(result) : \A j \in 1..Len(result) :
         i # j => Range(result[i]) \cap Range(result[j]) = {}
    /\ \A i \in 1..Len(result) : IsAscending(result[i])
    /\ UNION {Range(result[i]) : i \in 1..Len(result)} = GraphNodes(graph)
    /\ \A u \in GraphNodes(graph) : \A v \in GraphNodes(graph) :
         ComponentsWith(result, {u, v}) # {}
           <=> (v \in Reachable(graph, u) /\ u \in Reachable(graph, v))
    /\ graph = SccExample => result = << <<0, 1, 2>>, <<3>> >>

\* the strongly connected components of {0:[1], 1:[2], 2:[0,3], 3:[]}
C16_Witness ==
  /\ Returned("findStronglyConnectedComponents")
  /\ graph = SccExample
  /\ result = << <<0, 1, 2>>, <<3>> >>

\* C17: for a start node that is a key, dfs emits the nodes reachable from
\* it, each once, in pre-order over the neighbours in list order: every
\* step after the first is the first not yet emitted neighbour of the
\* latest emitted node that has one; and the visited set of the k-th step
\* is the set of the nodes of the steps 1..k.
C17_DfsPreOrder ==
  (Returned("dfs") /\ HasNode(graph, op.args[1])) =>
    /\ result[1].node = op.args[1]
    /\ StepNodes(result) = Reachable(graph, op.args[1])
    /\ NoNodeTwice(result)
    /\ \A k \in 1..Len(result) : result[k].visited = NodesUpTo(result, k)
    /\ \A k \in 2..Len(result) :
         LET seen == NodesUpTo(result, k - 1)
             open == {j \in 1..(k - 1) :
                        Range(Neighbors(graph, result[j].node)) \ seen # {}}
         IN /\ open # {}
            /\ LET j == CHOOSE x \in open : \A y \in open : y <= x
               IN result[k].node = FirstNotIn(Neighbors(graph, result[j].node), seen)

\* a dfs that returns from a node without neighbours left to an earlier
\* node, whose later neighbour it then emits
C17_Witness ==
  /\ Returned("dfs")
  /\ HasNode(graph, op.args[1])
  /\ Len(result) = 3
  /\ result[3].node \notin Range(Neighbors(graph, result[2].node))

\* C19: on a graph with a neighbour entry (and the edge derived from it)
\* that names an id that is no key, no operation throws (maxFlow taken
\* with distinct keys as source and sink), and bfs and dfs emit the id as a
\* node without outgoing edges.
C19_NoCrashOnDanglingReference ==
  (Dangling(graph) /\ pc # "idle"
     /\ (op.name = "maxFlow" =>
           /\ op.args[1] # op.args[2]
           /\ HasNode(graph, op.args[1]) /\ HasNode(graph, op.args[2]))) =>
    /\ pc # "threw"
    /\ (pc = "returned" /\ op.name \in {"bfs", "dfs"} /\ HasNode(graph, op.args[1]))
         => StepNodes(result) = Reachable(graph, op.args[1])

\* C19 holds of the six operations other than maxFlow.
OnlyMaxFlowThrows == pc = "threw" => op.name = "maxFlow"

\* C20: when several entries of the edge list give the same ordered pair
\* (from, to), the residual capacity of (from, to) before the first
\* augmentation is the capacity of the last of them.
C20_LastDuplicateWins ==
  (Called("maxFlow") /\ graph.isDirected /\ op.args[1] # op.args[2]
     /\ HasNode(graph, op.args[1]) /\ HasNode(graph, op.args[2])
     /\ pc = "loop" /\ totalFlow = 0 /\ pathFlow = 0) =>
    \A p \in RepeatedPairs(graph.edges) :
      /\ p[1] \in DOMAIN residualGraph
      /\ MapHas(residualGraph[p[1]], p[2])
      /\ MapGet(residualGraph[p[1]], p[2]) = LastCapacity(graph.edges, p[1], p[2])

\* C20 holds of the networks whose edges join keys with non-negative ids.
LastDuplicateWinsOnPlainNetworks == PlainNetwork(graph) => C20_LastDuplicateWins

\* a network with non-negative ids whose edge list gives one pair twice:
\* the page gives both entries the capacity of the pair's last capacity
\* line, and the residual capacity is that capacity, not their sum
LastDuplicateWinsWitness ==
  /\ pc = "loop" /\ totalFlow = 0 /\ pathFlow = 0
  /\ op.args[1] # op.args[2]
  /\ HasNode(graph, op.args[1]) /\ HasNode(graph, op.args[2])
  /\ PlainNetwork(graph)
  /\ Len(graph.edges) = 2
  /\ graph.edges[1].from = graph.edges[2].from
  /\ graph.edges[1].to = graph.edges[2].to
  /\ graph.edges[1].capacity = 2
  /\ graph.edges[2].capacity = 2
  /\ Residual(residualGraph, graph.edges[1].from, graph.edges[1].to) = 2

\* C24: for every edge whose endpoints are keys, negative ids included,
\* decoding the key that encodes (from, to) gives back (from, to), the call
\* gets to its loop, and the residual capacity of (from, to) before the
\* first augmentation is the capacity the edge list gives the pair.
C24_KeyRoundTrip ==
  (Called("maxFlow") /\ graph.isDirected /\ EdgesJoinKeys(graph)) =>
    /\ pc # "threw" \/ totalFlow > 0 \/ ~HasNode(graph, op.args[1])
    /\ \A i \in 1..Len(graph.edges) :
         LET e == graph.edges[i] IN
         /\ KeyEndpoints(EdgeKey(e.from, e.to)) = [from |-> e.from, to |-> e.to]
         /\ BeforeFirstAugmentation =>
              /\ MapHas(residualGraph[e.from], e.to)
              /\ MapGet(residualGraph[e.from], e.to)
                   = LastCapacity(graph.edges, e.from, e.to)

\* C24 holds of the networks whose edges join keys with non-negative ids.
KeyRoundTripOnPlainNetworks == PlainNetwork(graph) => C24_KeyRoundTrip

\* C25: when the edge list gives both (u, v) and (v, u), in either order,
\* and both are keys, the residual capacities of (u, v) and of (v, u)
\* before the first augmentation are the capacities the edge list gives
\* them: the reverse pair is set to 0 only when it has no entry yet.
C25_ReverseEdgeKept ==
  (Called("maxFlow") /\ graph.isDirected /\ EdgesJoinKeys(graph)
     /\ BeforeFirstAugmentation) =>
    \A i \in 1..Len(graph.edges) : \A j \in 1..Len(graph.edges) :
      LET e == graph.edges[i]
          r == graph.edges[j]
      IN (r.from = e.to /\ r.to = e.from /\ e.from # e.to) =>
           /\ Residual(residualGraph, e.from, e.to)
                = LastCapacity(graph.edges, e.from, e.to)
           /\ Residual(residualGraph, e.to, e.from)
                = LastCapacity(graph.edges, e.to, e.from)

\* C25 holds of the networks whose edges join keys with non-negative ids.
ReverseEdgeKeptOnPlainNetworks == PlainNetwork(graph) => C25_ReverseEdgeKept

\* a network with non-negative ids with the edges (u, v) and (v, u) of
\* different capacities, before the first augmentation
ReverseEdgeKeptWitness ==
  /\ BeforeFirstAugmentation
  /\ PlainNetwork(graph)
  /\ Len(graph.edges) = 2
  /\ graph.edges[1].from = graph.edges[2].to
  /\ graph.edges[1].to = graph.edges[2].from
  /\ graph.edges[1].from # graph.edges[1].to
  /\ graph.edges[1].capacity # graph.edges[2].capacity

\* C26: in a maxFlow call with source different from sink, after any
\* number of augmentations every residual capacity is a non-negative
\* integer, residual(u, v) + residual(v, u) is what it was before the first
\* augmentation for every pair of keys, and the accumulated flow is the
\* net decrease of the residual capacities of the pairs leaving source.
\* (Before the first augmentation the residual graph is the initial one and
\* the flow is 0, so the sums and the flow are compared from the first
\* augmentation on; the sums are read once every residual capacity is
\* known to be an integer.)
C26_ResidualConservation ==
  (Called("maxFlow") /\ graph.isDirected /\ op.args[1] # op.args[2]
     /\ pc \in {"loop", "returned"}) =>
    /\ \A u \in DOMAIN residualGraph : \A i \in 1..Len(residualGraph[u]) :
         IsNaturalNumber(residualGraph[u][i].value)
    /\ totalFlow > 0 =>
         LET initial == InitialResidual(graph)
             source == op.args[1]
         IN /\ \A u \in DOMAIN residualGraph : \A v \in DOMAIN residualGraph :
                 Residual(residualGraph, u, v) + Residual(residualGraph, v, u)
                   = Residual(initial, u, v) + Residual(initial, v, u)
            /\ totalFlow = SumOver(DOMAIN residualGraph,
                             [v \in DOMAIN residualGraph |->
                                Residual(initial, source, v)
                                  - Residual(residualGraph, source, v)])

\* C26 holds of the graphs whose capacities are positive integers, as the
\* spec has them.
ResidualConservationOnPositiveCapacities ==
  PositiveIntegerCapacities(graph) => C26_ResidualConservation

\* an augmentation of 2 units over a path of two edges has been made
ConservationWitness ==
  /\ Called("maxFlow") /\ graph.isDirected /\ op.args[1] # op.args[2]
  /\ pc = "loop"
  /\ totalFlow = 2
  /\ Len(graph.edges) = 2
  /\ graph.edges[1].to = graph.edges[2].from
  /\ graph.edges[1].from # graph.edges[1].to
  /\ graph.edges[1].from = op.args[1]
  /\ graph.edges[2].to = op.args[2]
  /\ Residual(residualGraph, op.args[2], graph.edges[1].to) = 2

\* maxFlow(0, 1) on FlowExample has returned 2 after two augmentations, the
\* second of which went back over the pair (2, 3) of the first: the
\* residual capacity of (2, 3) is 1 again and that of (3, 2) is 0
ReverseArcWitness ==
  /\ graph = FlowExample
  /\ Returned("maxFlow") /\ op.args = <<0, 1>>
  /\ result = 2
  /\ pathFlow = 1
  /\ Residual(residualGraph, 2, 3) = 1
  /\ Residual(residualGraph, 3, 2) = 0
  /\ Residual(residualGraph, 2, 5) = 0

\* an augmentation along edges of capacity Infinity only has left NaN as
\* the forward residual capacity and Infinity as the reverse one, and the
\* call has returned Infinity
UnboundedAugmentationWitness ==
  /\ Returned("maxFlow") /\ op.args[1] # op.args[2]
  /\ result = Infinity
  /\ Len(graph.edges) = 1
  /\ Residual(residualGraph, op.args[1], op.args[2]) = NumberNaN
  /\ Residual(residualGraph, op.args[2], op.args[1]) = Infinity

\* an augmentation of 2 along an edge of capacity Infinity and an edge of
\* capacity 2 has left the residual capacity Infinity as it was
UnboundedEdgeKeptWitness ==
  /\ Returned("maxFlow") /\ op.args[1] # op.args[2]
  /\ result = 2
  /\ Len(graph.edges) = 2
  /\ graph.edges[1].capacity = Infinity
  /\ Residual(residualGraph, graph.edges[1].from, graph.edges[1].to) = Infinity
  /\ Residual(residualGraph, graph.edges[1].to, graph.edges[1].from) = 2

\* the call of parseAdjacencyList returned a graph
Parsed == op.name = "parseAdjacencyList" /\ ~result.null

\* C21: in every graph parseAdjacencyList returns, each id in a neighbour
\* list is a key of the adjacency mapping, and the page that gets the graph
\* holds that graph.
C21_NeighborsAreKeys ==
  Parsed =>
    /\ \A u \in Keys(result.graph) :
         \A v \in Range(result.graph.adjacencyList[u]) : v \in Keys(result.graph)
    /\ Range(result.graph.keys) = Keys(result.graph)
    /\ graph = result.graph

\* the directed text "0: 1" gave the keys 0 and 1, 1 with an empty list
C21_Witness ==
  /\ Parsed
  /\ op.args[1] = <<"0", ":", " ", "1">>
  /\ op.args[3]
  /\ result.graph.keys = <<0, 1>>
  /\ result.graph.adjacencyList[1] = <<>>

\* C27: for an undirected graph parseAdjacencyList returns a symmetric
\* adjacency mapping, also when a later line gives the list of a node that
\* an earlier line named as a neighbour.
C27_UndirectedParseIsSymmetric ==
  (Parsed /\ ~result.graph.isDirected) => Symmetric(result.graph)

\* C27 holds of the texts of a single line.
UndirectedParseIsSymmetricOnOneLine ==
  (Parsed /\ Len(Split(Trim(op.args[1]), "\n", <<>>)) = 1) =>
    C27_UndirectedParseIsSymmetric

\* no node is twice in the sequence
NoRepeat(s) == \A i \in 1..Len(s) : \A j \in 1..Len(s) : s[i] = s[j] => i = j

\* C22: the full-graph playback shows each node exactly once: the
\* accumulated traversal order of a runAlgorithm call never holds a node
\* twice, a node shown by an earlier bfs or dfs call is not shown again by
\* a later one, and a call that has shown all its steps has shown every key.
C22_PlaybackShowsEachNodeOnce ==
  page.name = "Visualize" =>
    /\ NoRepeat(page.traversalOrder)
    /\ \A k \in 1..Len(loops) :
         /\ NoRepeat(loops[k].fullOrder)
         /\ Len(loops[k].fullOrder) = Len(PlaybackOf(graph, loops[k].algorithm))
              => Range(loops[k].fullOrder) = Keys(graph)

\* C22 holds of the undirected graphs with a symmetric adjacency mapping.
PlaybackShowsEachNodeOnceOnSymmetric ==
  (~graph.isDirected /\ Symmetric(graph)) => C22_PlaybackShowsEachNodeOnce

\* a playback of a symmetric undirected graph of two components is complete
PlaybackOnSymmetricWitness ==
  /\ page.name = "Visualize"
  /\ ~graph.isDirected /\ Symmetric(graph)
  /\ Len(page.components) = 2
  /\ Len(loops) = 1
  /\ Len(loops[1].fullOrder) = 3
  /\ page.traversalOrder = loops[1].fullOrder
  /\ Range(page.traversalOrder) = Keys(graph)

\* C28: at most one playback loop is active at a time, and Reset ends the
\* playback: while the page is not running no loop is left that will show
\* further steps, under every interleaving of the clicks on Run,
\* Pause/Resume and Reset with the timers.
C28_OnePlaybackLoop ==
  page.name = "Visualize" =>
    /\ Len(loops) <= 1
    /\ ~page.isRunning => loops = <<>>

\* C28 holds as long as Reset is not clicked during a playback:
\* isRunning tells whether a loop is active.
OnePlaybackLoopWithoutReset ==
  [][(page.name = "Visualize" /\ C28_OnePlaybackLoop /\ ~(HandleReset /\ loops # <<>>))
       => C28_OnePlaybackLoop']_vars

\* the max-flow request of the Advanced page is one the handler rejects:
\* source or sink is not a number, is not a node, or they are equal
MaxFlowRejected ==
  /\ page.name = "Advanced"
  /\ page.selectedOptions.maxFlow
  /\ LET source == ParseInt(page.maxFlowSource)
         sink == ParseInt(page.maxFlowSink)
     IN \/ source.nan \/ sink.nan
        \/ ~HasNode(graph, source.value)
        \/ ~HasNode(graph, sink.value)
        \/ source.value = sink.value

RejectionToasts ==
  {"Invalid source or sink value", "Invalid source node", "Invalid sink node",
   "Source and sink must be different nodes"}

\* C23: a run of handleRunAnalysis whose max-flow request is rejected
\* leaves the results state at its previous value and shows a rejection
\* message, also when articulation points, biconnected or strongly
\* connected components were selected and computed in the same run.
C23_RejectedRunKeepsResults ==
  [][(HandleRunAnalysis /\ MaxFlowRejected) =>
       /\ page'.results = page.results
       /\ page'.toast \in RejectionToasts]_vars

\* a rejected run with articulation points selected has left the results of
\* an earlier run, which hold a flow and no articulation points
C23_Witness ==
  /\ MaxFlowRejected
  /\ page.toast \in RejectionToasts
  /\ page.selectedOptions.articulationPoints
  /\ page.results.articulationPoints = <<>>
  /\ page.results.maxFlow # <<>>

====
